---- MODULE Spec2Model ----
(***************************************************************************)
(* A model of tinyspec's task-tree parser, summary aggregator, display     *)
(* model builder and dashboard controller (src/spec/summary.rs,            *)
(* src/spec/mod.rs, src/spec/dashboard.rs).                                *)
(*                                                                         *)
(* Strings are sequences of one-character strings, so that trimming,       *)
(* prefix stripping, slicing and byte-wise comparison are computed as the  *)
(* code computes them.  A document's content is the sequence of its lines  *)
(* (what content.lines() yields).                                          *)
(***************************************************************************)
EXTENDS Integers, Sequences, FiniteSets, TLC

\* ------------------------------------------------------------------------
\* Characters and strings
\* ------------------------------------------------------------------------

\* The characters that occur in the modelled files, in ascending byte order.
Alphabet ==
    << " ", "#", "-", ".", "0", "1", "2", "3", "4", "5", "6", "7", "8", "9",
       ":", "A", "B", "I", "P", "X", "[", "]",
       "a", "b", "c", "d", "e", "g", "i", "l", "m", "n", "o", "p", "s", "t",
       "x", "y", "z" >>

CharSet == { Alphabet[i] : i \in 1..Len(Alphabet) }

\* The byte order of characters (what u8 comparison of ASCII text gives).
Code == [ c \in CharSet |-> CHOOSE i \in 1..Len(Alphabet) : Alphabet[i] = c ]

\* char::is_whitespace, over the alphabet.
IsWhitespace(c) == c = " "

\* Ordering results of std::cmp::Ordering.
Less == "Less"
Equal == "Equal"
Greater == "Greater"

\* Ordering::then_with.
ThenWith(o, next) == IF o = Equal THEN next ELSE o

\* <bool as Ord>::cmp: false < true.
BoolCmp(a, b) == IF a = b THEN Equal ELSE IF b THEN Less ELSE Greater

\* <str as Ord>::cmp: lexicographic comparison of the bytes.
RECURSIVE StrCmpFrom(_, _, _)
StrCmpFrom(a, b, i) ==
    IF i > Len(a) /\ i > Len(b) THEN Equal
    ELSE IF i > Len(a) THEN Less
    ELSE IF i > Len(b) THEN Greater
    ELSE IF Code[a[i]] < Code[b[i]] THEN Less
    ELSE IF Code[a[i]] > Code[b[i]] THEN Greater
    ELSE StrCmpFrom(a, b, i + 1)

StrCmp(a, b) == StrCmpFrom(a, b, 1)

\* Option<T>: None, or Some(v).
None == [some |-> FALSE]
Some(v) == [some |-> TRUE, val |-> v]

\* <Option<String> as Ord>::cmp: None sorts before every Some.
OptStrCmp(a, b) ==
    IF ~a.some /\ ~b.some THEN Equal
    ELSE IF ~a.some THEN Less
    ELSE IF ~b.some THEN Greater
    ELSE StrCmp(a.val, b.val)

\* str::starts_with.
StartsWith(s, p) == Len(s) >= Len(p) /\ SubSeq(s, 1, Len(p)) = p

\* str::ends_with.
EndsWith(s, p) == Len(s) >= Len(p) /\ SubSeq(s, Len(s) - Len(p) + 1, Len(s)) = p

\* str::strip_prefix: the rest after the prefix, or None.
StripPrefix(s, p) ==
    IF StartsWith(s, p) THEN Some(SubSeq(s, Len(p) + 1, Len(s))) ELSE None

\* Index of the first character at or after i that is not whitespace
\* (Len(s) + 1 if there is none).
RECURSIVE SkipWhitespace(_, _)
SkipWhitespace(s, i) ==
    IF i <= Len(s) /\ IsWhitespace(s[i]) THEN SkipWhitespace(s, i + 1) ELSE i

\* Index of the last character at or before i that is not whitespace (0 if none).
RECURSIVE SkipWhitespaceBack(_, _)
SkipWhitespaceBack(s, i) ==
    IF i >= 1 /\ IsWhitespace(s[i]) THEN SkipWhitespaceBack(s, i - 1) ELSE i

\* str::trim_start.
TrimStart(s) == SubSeq(s, SkipWhitespace(s, 1), Len(s))

\* str::trim_end.
TrimEnd(s) == SubSeq(s, 1, SkipWhitespaceBack(s, Len(s)))

\* str::trim.
Trim(s) == TrimEnd(TrimStart(s))

\* str::find(char): the 1-based position of the first occurrence, 0 if none.
Find(s, c) ==
    IF \E i \in 1..Len(s) : s[i] = c
    THEN CHOOSE i \in 1..Len(s) : s[i] = c /\ \A j \in 1..(i - 1) : s[j] # c
    ELSE 0

\* The text fragments the parser matches against.
PlanHeading ==
    << "#", " ", "I", "m", "p", "l", "e", "m", "e", "n", "t", "a", "t", "i",
       "o", "n", " ", "P", "l", "a", "n" >>
HeadingPrefix == << "#", " " >>
CheckedMarker == << "-", " ", "[", "x", "]", " " >>
UncheckedMarker == << "-", " ", "[", " ", "]", " " >>

\* ------------------------------------------------------------------------
\* summary.rs: task tree parser and summary aggregator
\* ------------------------------------------------------------------------

\* struct TaskNode.
TaskNode(id, description, checked, children) ==
    [id |-> id, description |-> description, checked |-> checked,
     children |-> children]

\* tasks.last_mut().children.push(node).
PushChild(tasks, node) ==
    [tasks EXCEPT ![Len(tasks)].children = Append(@, node)]

\* The placement, were a task line indented by four or more pushed under the
\* last child of the last top-level node (a third level).
PlaceTaskNested(tasks, line, node) ==
    LET indent == Len(line) - Len(TrimStart(line))
    IN  IF indent = 0 THEN Append(tasks, node)
        ELSE IF tasks = <<>> THEN tasks
        ELSE IF indent >= 4 /\ tasks[Len(tasks)].children # <<>>
        THEN [tasks EXCEPT ![Len(tasks)].children =
                [@ EXCEPT ![Len(@)].children = Append(@, node)]]
        ELSE PushChild(tasks, node)

\* The placement, were an indented task line without a parent pushed as a
\* top-level node instead of being dropped.
PlaceTaskOrphanPromoted(tasks, line, node) ==
    LET indent == Len(line) - Len(TrimStart(line))
    IN  IF indent = 0 \/ tasks = <<>> THEN Append(tasks, node)
        ELSE PushChild(tasks, node)

\* The body of parse_tasks's loop for one task line: top-level push, child
\* push under the last top-level node, or nothing when there is no parent.
PlaceTask(tasks, line, node) ==
    LET indent == Len(line) - Len(TrimStart(line))
    IN  IF indent = 0 THEN Append(tasks, node)
        ELSE IF tasks # <<>> THEN PushChild(tasks, node)
        ELSE tasks

\* The loop, were a checkbox line without a colon to end it (break) rather
\* than be skipped (continue).
RECURSIVE ParseFromStopNoColon(_, _, _, _)
ParseFromStopNoColon(lines, i, in_plan, tasks) ==
    IF i > Len(lines) THEN tasks
    ELSE
      LET line == lines[i]
          trimmed == Trim(line)
          cx == StripPrefix(trimmed, CheckedMarker)
          un == StripPrefix(trimmed, UncheckedMarker)
          is_task == cx.some \/ un.some
          is_checked == cx.some
          rest == IF cx.some THEN cx.val ELSE un.val
          colon_pos == Find(rest, ":")
          id == Trim(SubSeq(rest, 1, colon_pos - 1))
          description == Trim(SubSeq(rest, colon_pos + 1, Len(rest)))
      IN  IF trimmed = PlanHeading
          THEN ParseFromStopNoColon(lines, i + 1, TRUE, tasks)
          ELSE IF in_plan /\ StartsWith(trimmed, HeadingPrefix) THEN tasks
          ELSE IF ~in_plan THEN ParseFromStopNoColon(lines, i + 1, in_plan, tasks)
          ELSE IF ~is_task THEN ParseFromStopNoColon(lines, i + 1, in_plan, tasks)
          ELSE IF colon_pos = 0 THEN tasks
          ELSE ParseFromStopNoColon(lines, i + 1, in_plan,
                         PlaceTask(tasks, line,
                                   TaskNode(id, description, is_checked, <<>>)))

\* The loop, were the description taken as it stands after the colon, without
\* its trim().
RECURSIVE ParseFromKeepsSpaces(_, _, _, _)
ParseFromKeepsSpaces(lines, i, in_plan, tasks) ==
    IF i > Len(lines) THEN tasks
    ELSE
      LET line == lines[i]
          trimmed == Trim(line)
          cx == StripPrefix(trimmed, CheckedMarker)
          un == StripPrefix(trimmed, UncheckedMarker)
          is_task == cx.some \/ un.some
          is_checked == cx.some
          rest == IF cx.some THEN cx.val ELSE un.val
          colon_pos == Find(rest, ":")
          id == Trim(SubSeq(rest, 1, colon_pos - 1))
          description == SubSeq(rest, colon_pos + 1, Len(rest))
      IN  IF trimmed = PlanHeading
          THEN ParseFromKeepsSpaces(lines, i + 1, TRUE, tasks)
          ELSE IF in_plan /\ StartsWith(trimmed, HeadingPrefix) THEN tasks
          ELSE IF ~in_plan THEN ParseFromKeepsSpaces(lines, i + 1, in_plan, tasks)
          ELSE IF ~is_task THEN ParseFromKeepsSpaces(lines, i + 1, in_plan, tasks)
          ELSE IF colon_pos = 0 THEN ParseFromKeepsSpaces(lines, i + 1, in_plan, tasks)
          ELSE ParseFromKeepsSpaces(lines, i + 1, in_plan,
                         PlaceTask(tasks, line,
                                   TaskNode(id, description, is_checked, <<>>)))

\* parse_tasks's loop from line i on, with the loop's in_plan and tasks.
RECURSIVE ParseFrom(_, _, _, _)
ParseFrom(lines, i, in_plan, tasks) ==
    IF i > Len(lines) THEN tasks
    ELSE
      LET line == lines[i]
          trimmed == Trim(line)
          cx == StripPrefix(trimmed, CheckedMarker)
          un == StripPrefix(trimmed, UncheckedMarker)
          is_task == cx.some \/ un.some
          is_checked == cx.some
          rest == IF cx.some THEN cx.val ELSE un.val
          colon_pos == Find(rest, ":")
          id == Trim(SubSeq(rest, 1, colon_pos - 1))
          description == Trim(SubSeq(rest, colon_pos + 1, Len(rest)))
      IN  IF trimmed = PlanHeading THEN ParseFrom(lines, i + 1, TRUE, tasks)
          ELSE IF in_plan /\ StartsWith(trimmed, HeadingPrefix) THEN tasks
          ELSE IF ~in_plan THEN ParseFrom(lines, i + 1, in_plan, tasks)
          ELSE IF ~is_task THEN ParseFrom(lines, i + 1, in_plan, tasks)
          ELSE IF colon_pos = 0 THEN ParseFrom(lines, i + 1, in_plan, tasks)
          ELSE ParseFrom(lines, i + 1, in_plan,
                         PlaceTask(tasks, line,
                                   TaskNode(id, description, is_checked, <<>>)))

\* fn parse_tasks(content) -> Vec<TaskNode>.
parse_tasks(content) == ParseFrom(content, 1, FALSE, <<>>)

\* count_tasks's inner loop, were it left out (children not counted).
CountChildrenSkipped(children, acc) == acc

\* The inner loop of count_tasks over one task's children, from the running
\* (total, checked).
RECURSIVE CountChildren(_, _)
CountChildren(children, acc) ==
    IF children = <<>> THEN acc
    ELSE CountChildren(Tail(children),
                       [total |-> acc.total + 1,
                        checked |-> IF Head(children).checked
                                    THEN acc.checked + 1 ELSE acc.checked])

\* The outer loop of count_tasks, from the running (total, checked).
RECURSIVE CountFrom(_, _)
CountFrom(tasks, acc) ==
    IF tasks = <<>> THEN acc
    ELSE LET task == Head(tasks)
             own == [total |-> acc.total + 1,
                     checked |-> IF task.checked
                                 THEN acc.checked + 1 ELSE acc.checked]
         IN  CountFrom(Tail(tasks), CountChildren(task.children, own))

\* fn count_tasks(tasks) -> (total, checked): a two-level walk.
count_tasks(tasks) == CountFrom(tasks, [total |-> 0, checked |-> 0])

\* enum SpecStatus.
InProgress == "InProgress"
Pending == "Pending"
Completed == "Completed"

\* The status expression without its `total == 0` arm.
StatusOfNoEmptyArm(total, checked) ==
    IF checked = total THEN Completed
    ELSE IF checked > 0 THEN InProgress
    ELSE Pending

\* The status expression of load_spec_summary.
StatusOf(total, checked) ==
    IF total = 0 THEN Pending
    ELSE IF checked = total THEN Completed
    ELSE IF checked > 0 THEN InProgress
    ELSE Pending

\* ------------------------------------------------------------------------
\* mod.rs: the collection on disk
\* ------------------------------------------------------------------------

\* const TIMESTAMP_PREFIX_LEN ("YYYY-MM-DD-HH-MM-").
TIMESTAMP_PREFIX_LEN == 17

MdSuffix == << ".", "m", "d" >>
MdExt == << "m", "d" >>
TemplatesDir == << "t", "e", "m", "p", "l", "a", "t", "e", "s" >>

\* A path below the collection root: the directory components and the file name.
Path(dir, file) == [dir |-> dir, file |-> file]

\* fn extract_spec_name(filename) -> Option<&str>.
extract_spec_name(filename) ==
    IF Len(filename) > TIMESTAMP_PREFIX_LEN + 3 /\ EndsWith(filename, MdSuffix)
    THEN Some(SubSeq(filename, TIMESTAMP_PREFIX_LEN + 1, Len(filename) - 3))
    ELSE None

\* Position of the last '.' of a file name, 0 if none.
LastDot(f) ==
    IF \E i \in 1..Len(f) : f[i] = "."
    THEN CHOOSE i \in 1..Len(f) : f[i] = "." /\ \A j \in (i + 1)..Len(f) : f[j] # "."
    ELSE 0

\* Path::extension: the part after the last '.', None without an embedded '.'.
Extension(f) ==
    IF LastDot(f) <= 1 THEN None ELSE Some(SubSeq(f, LastDot(f) + 1, Len(f)))

\* All orderings of a finite set.
RECURSIVE Perms(_)
Perms(S) ==
    IF S = {} THEN { <<>> }
    ELSE UNION { { <<x>> \o t : t \in Perms(S \ {x}) } : x \in S }

\* The sequence visits the files of each directory as one contiguous run.
DirContiguous(s) ==
    \A i \in 1..Len(s) : \A k \in 1..Len(s) :
        (i < k /\ s[i].dir = s[k].dir) =>
            \A j \in i..k : s[j].dir = s[i].dir

\* What the two nested fs::read_dir loops of collect_spec_files can visit: the
\* files at depth at most one, root entries in any order (read_dir promises
\* none), the files of a subdirectory while that subdirectory is visited.
ReadDirOrders(files) ==
    { s \in Perms({ p \in DOMAIN files : Len(p.dir) <= 1 }) : DirContiguous(s) }

\* The conditions, were the templates directory walked like any other.
IsCollectedWithTemplates(p) == Extension(p.file) = Some(MdExt)

\* The conditions under which collect_spec_files pushes a visited file.
IsCollected(p) ==
    /\ p.dir = <<>> \/ p.dir[1] # TemplatesDir
    /\ Extension(p.file) = Some(MdExt)

\* fn collect_spec_files() -> Vec<PathBuf>, for one visiting order.
collect_spec_files(order) == SelectSeq(order, IsCollected)

\* <PathBuf as Ord>::cmp: the components compared one by one, each as bytes.
RECURSIVE ComponentsCmp(_, _)
ComponentsCmp(a, b) ==
    IF a = <<>> /\ b = <<>> THEN Equal
    ELSE IF a = <<>> THEN Less
    ELSE IF b = <<>> THEN Greater
    ELSE ThenWith(StrCmp(Head(a), Head(b)), ComponentsCmp(Tail(a), Tail(b)))

PathCmp(p, q) == ComponentsCmp(Append(p.dir, p.file), Append(q.dir, q.file))

\* Result<PathBuf, String> of find_spec.
Found(p) == [ok |-> TRUE, path |-> p]
NoSpecFound(name) == [ok |-> FALSE, name |-> name]

\* fn find_spec(name) -> Result<PathBuf, String>, for one visiting order: the
\* only match, or the last of the sorted matches (matches.sort() orders the
\* paths, so the last is the greatest path).  A missing root and a root
\* without a match both give an Err.
find_spec(files, order, name) ==
    LET matches == { p \in DOMAIN files :
                       /\ \E i \in 1..Len(collect_spec_files(order)) :
                             collect_spec_files(order)[i] = p
                       /\ extract_spec_name(p.file) = Some(name) }
    IN  IF matches = {} THEN NoSpecFound(name)
        ELSE Found(CHOOSE p \in matches :
                      \A q \in matches : PathCmp(q, p) # Greater)

\* fn extract_timestamp(filename) -> String.
extract_timestamp(filename) ==
    IF Len(filename) >= 16
    THEN SubSeq(filename, 1, 10) \o << " " >> \o SubSeq(filename, 12, 13)
         \o << ":" >> \o SubSeq(filename, 15, 16)
    ELSE <<>>

\* The `group` block of load_spec_summary: the parent directory's name, None
\* for a file directly in the collection root.
GroupOf(p) == IF p.dir # <<>> THEN Some(p.dir[Len(p.dir)]) ELSE None

\* fn load_spec_summary(path) -> Option<SpecSummary>.  The title (front matter)
\* is not part of the model: nothing modelled here reads it.
load_spec_summary(files, p) ==
    IF ~extract_spec_name(p.file).some \/ p \notin DOMAIN files THEN None
    ELSE LET tasks == parse_tasks(files[p])
             n == count_tasks(tasks)
         IN  Some([name |-> extract_spec_name(p.file).val,
                   group |-> GroupOf(p),
                   timestamp |-> extract_timestamp(p.file),
                   total |-> n.total,
                   checked |-> n.checked,
                   status |-> StatusOf(n.total, n.checked),
                   tasks |-> tasks])

\* SpecStatus::sort_key.
sort_key(status) ==
    IF status = InProgress THEN 0 ELSE IF status = Pending THEN 1 ELSE 2

\* <u8 as Ord>::cmp.
IntCmp(a, b) == IF a < b THEN Less ELSE IF a > b THEN Greater ELSE Equal

\* The sort closure without its completion key.
SummaryCmpNoTier(a, b) ==
    ThenWith(OptStrCmp(a.group, b.group), StrCmp(a.timestamp, b.timestamp))

\* The sort closure with SpecStatus's own order as its first key.
SummaryCmpByStatus(a, b) ==
    LET a_done == a.status = Completed
        b_done == b.status = Completed
    IN  ThenWith(IntCmp(sort_key(a.status), sort_key(b.status)),
          ThenWith(OptStrCmp(a.group, b.group),
            IF a_done /\ b_done
            THEN StrCmp(b.timestamp, a.timestamp)
            ELSE StrCmp(a.timestamp, b.timestamp)))

\* The sort closure with newest-first in both tiers.
SummaryCmpNewestFirst(a, b) ==
    LET a_done == a.status = Completed
        b_done == b.status = Completed
    IN  ThenWith(BoolCmp(a_done, b_done),
          ThenWith(OptStrCmp(a.group, b.group),
            StrCmp(b.timestamp, a.timestamp)))

\* The sort closure with oldest-first in both tiers.
SummaryCmpOldestFirst(a, b) ==
    LET a_done == a.status = Completed
        b_done == b.status = Completed
    IN  ThenWith(BoolCmp(a_done, b_done),
          ThenWith(OptStrCmp(a.group, b.group),
            StrCmp(a.timestamp, b.timestamp)))

\* The closure given to summaries.sort_by in load_all_summaries.
SummaryCmp(a, b) ==
    LET a_done == a.status = Completed
        b_done == b.status = Completed
    IN  ThenWith(BoolCmp(a_done, b_done),
          ThenWith(OptStrCmp(a.group, b.group),
            IF a_done /\ b_done
            THEN StrCmp(b.timestamp, a.timestamp)
            ELSE StrCmp(a.timestamp, b.timestamp)))

\* Stable insertion of x into a sorted sequence: after every element that
\* does not compare Greater than x.
RECURSIVE InsertSorted(_, _)
InsertSorted(sorted, x) ==
    IF sorted = <<>> THEN << x >>
    ELSE IF SummaryCmp(x, Head(sorted)) = Less THEN << x >> \o sorted
    ELSE << Head(sorted) >> \o InsertSorted(Tail(sorted), x)

\* slice::sort_by (a stable sort) with the closure above.
RECURSIVE SortFrom(_, _)
SortFrom(sorted, rest) ==
    IF rest = <<>> THEN sorted
    ELSE SortFrom(InsertSorted(sorted, Head(rest)), Tail(rest))

sort_by(summaries) == SortFrom(<<>>, summaries)

\* files.iter().filter_map(load_spec_summary).collect().
RECURSIVE FilterMapLoad(_, _)
FilterMapLoad(files, paths) ==
    IF paths = <<>> THEN <<>>
    ELSE LET s == load_spec_summary(files, Head(paths))
         IN  (IF s.some THEN << s.val >> ELSE <<>>)
             \o FilterMapLoad(files, Tail(paths))

\* fn load_all_summaries() -> Vec<SpecSummary>, for one visiting order.
load_all_summaries(files, order) ==
    sort_by(FilterMapLoad(files, collect_spec_files(order)))

\* ------------------------------------------------------------------------
\* dashboard.rs: display model
\* ------------------------------------------------------------------------

\* enum DisplayItem.  Indices are 0-based, as in the code.
GroupHeader(name, checked, total) ==
    [kind |-> "GroupHeader", name |-> name, checked |-> checked, total |-> total]
SpecItem(idx) == [kind |-> "Spec", idx |-> idx]

\* The aggregate, were it summed over the first contiguous run of g only.
RECURSIVE GroupAggregateFirstRun(_, _)
GroupAggregateFirstRun(summaries, g) ==
    IF summaries = <<>> THEN [checked |-> 0, total |-> 0]
    ELSE LET s == Head(summaries)
             rest == Tail(summaries)
         IN  IF s.group # Some(g) THEN GroupAggregateFirstRun(rest, g)
             ELSE LET r == IF rest # <<>> /\ Head(rest).group = Some(g)
                           THEN GroupAggregateFirstRun(rest, g)
                           ELSE [checked |-> 0, total |-> 0]
                  IN  [checked |-> s.checked + r.checked,
                       total |-> s.total + r.total]

\* The filter/fold of build_display_items: (checked, total) summed over every
\* summary whose group is Some(g).
RECURSIVE GroupAggregate(_, _)
GroupAggregate(summaries, g) ==
    IF summaries = <<>> THEN [checked |-> 0, total |-> 0]
    ELSE LET s == Head(summaries)
             r == GroupAggregate(Tail(summaries), g)
         IN  IF s.group = Some(g)
             THEN [checked |-> s.checked + r.checked, total |-> s.total + r.total]
             ELSE r

\* The loop body with the selectable index taken before the header is pushed.
DisplayStepIndexBeforeHeader(summaries, idx, acc) ==
    LET spec == summaries[idx + 1]
        group_changed == spec.group # acc.current_group
        agg == GroupAggregate(summaries, spec.group.val)
        items == IF group_changed /\ spec.group.some
                 THEN Append(acc.display_items,
                             GroupHeader(spec.group.val, agg.checked, agg.total))
                 ELSE acc.display_items
    IN  [display_items |-> Append(items, SpecItem(idx)),
         selectable |-> Append(acc.selectable, Len(acc.display_items)),
         current_group |-> spec.group]

\* One pass of the loop of build_display_items, for summaries[idx + 1], from
\* the display list, the selectable list and current_group built so far.
DisplayStep(summaries, idx, acc) ==
    LET spec == summaries[idx + 1]
        group_changed == spec.group # acc.current_group
        agg == GroupAggregate(summaries, spec.group.val)
        items == IF group_changed /\ spec.group.some
                 THEN Append(acc.display_items,
                             GroupHeader(spec.group.val, agg.checked, agg.total))
                 ELSE acc.display_items
    IN  [display_items |-> Append(items, SpecItem(idx)),
         selectable |-> Append(acc.selectable, Len(items)),
         current_group |-> spec.group]

RECURSIVE DisplayFrom(_, _, _)
DisplayFrom(summaries, idx, acc) ==
    IF idx >= Len(summaries) THEN acc
    ELSE DisplayFrom(summaries, idx + 1, DisplayStep(summaries, idx, acc))

\* fn App::build_display_items: the new display_items and selectable.
build_display_items(summaries) ==
    DisplayFrom(summaries, 0,
                [display_items |-> <<>>, selectable |-> <<>>,
                 current_group |-> None])

\* reload without its clamp of the list selection.
ClampSelectedKept(sel, n_selectable) == sel

\* The "clamp list selection" block of App::reload.
ClampSelected(sel, n_selectable) ==
    IF n_selectable # 0
    THEN (IF sel < n_selectable - 1 THEN sel ELSE n_selectable - 1)
    ELSE 0

\* enum DetailRow.
TopLevel(index, expanded) == [kind |-> "TopLevel", index |-> index, expanded |-> expanded]
SubTask(parent, child) == [kind |-> "SubTask", parent |-> parent, child |-> child]

\* The rows of a task, were the children pushed whether or not it is collapsed.
RowsOfTaskAlwaysChildren(task, i, collapsed) ==
    LET expanded == i \notin collapsed
    IN  << TopLevel(i, expanded) >>
        \o [j \in 1..Len(task.children) |-> SubTask(i, j - 1)]

\* The rows detail_rows pushes for top-level task i (0-based).
RowsOfTask(task, i, collapsed) ==
    LET expanded == i \notin collapsed
    IN  << TopLevel(i, expanded) >>
        \o (IF expanded
            THEN [j \in 1..Len(task.children) |-> SubTask(i, j - 1)]
            ELSE <<>>)

RECURSIVE DetailRowsFrom(_, _, _)
DetailRowsFrom(tasks, i, collapsed) ==
    IF i >= Len(tasks) THEN <<>>
    ELSE RowsOfTask(tasks[i + 1], i, collapsed)
         \o DetailRowsFrom(tasks, i + 1, collapsed)

\* fn App::detail_rows, for the summaries and detail state given.  The code
\* indexes specs[detail.spec_index]; callers guard with DetailIndexValid.
detail_rows(summaries, d) ==
    DetailRowsFrom(summaries[d.spec_index + 1].tasks, 0, d.collapsed)

\* Whether &self.specs[self.detail.spec_index] is in bounds (else it panics).
DetailIndexValid(summaries, d) == d.spec_index < Len(summaries)

\* ------------------------------------------------------------------------
\* The documents and paths the model draws from
\* ------------------------------------------------------------------------

\* "2026-01-0<d>-10-00-": a 17-character timestamp prefix.
Stamp(d) ==
    << "2", "0", "2", "6", "-", "0", "1", "-", "0", d, "-", "1", "0", "-",
       "0", "0", "-" >>

FileName(d, name) == Stamp(d) \o name \o MdSuffix

\* n spaces of indentation.
Spaces(n) == [i \in 1..n |-> " "]

\* A checklist line "<indent>- [x] <id>: <desc>".
TaskLine(indent, checked, id, desc) ==
    Spaces(indent) \o (IF checked THEN CheckedMarker ELSE UncheckedMarker)
    \o id \o << ":", " " >> \o desc

\* A document with a checkbox line but no Implementation Plan: no tasks.
DocNoPlan ==
    << << "#", " ", "B" >>,
       TaskLine(0, TRUE, << "A" >>, << "x" >>) >>

\* Two unchecked tasks (parent and child): Pending.
DocPending ==
    << PlanHeading,
       TaskLine(0, FALSE, << "A" >>, << "x" >>),
       TaskLine(2, FALSE, << "A", ".", "1" >>, << "y" >>) >>

\* Two top-level tasks, the first with a child; two of three checked.
DocProgress ==
    << << "#", " ", "B" >>,
       PlanHeading,
       <<>>,
       TaskLine(0, FALSE, << "A" >>, << "x" >>),
       TaskLine(2, TRUE, << "A", ".", "1" >>, << "y" >>),
       TaskLine(0, TRUE, << "B" >>, << "z" >>),
       << "#", " ", "X" >>,
       TaskLine(0, FALSE, << "X" >>, << "z" >>) >>

\* One checked task: Completed.
DocDone ==
    << PlanHeading,
       TaskLine(0, TRUE, << "A" >>, << "x" >>) >>

\* A parent and two children at different depths, all checked: Completed.
DocAllDone ==
    << PlanHeading,
       TaskLine(0, TRUE, << "A" >>, << "x" >>),
       TaskLine(2, TRUE, << "A", ".", "1" >>, << "y" >>),
       TaskLine(4, TRUE, << "A", ".", "2" >>, << "z" >>) >>

\* An indented task before any top-level one, a `- [X] ` line and a checkbox
\* line without a colon, then an unchecked parent with a checked child.
DocOrphan ==
    << PlanHeading,
       TaskLine(2, TRUE, << "A", ".", "1" >>, << "y" >>),
       << "-", " ", "[", "X", "]", " ", "B", ":", " ", "x" >>,
       << "-", " ", "[", "x", "]", " ", "B" >>,
       TaskLine(0, FALSE, << "A" >>, << "x" >>),
       TaskLine(2, TRUE, << "A", ".", "1" >>, << "y" >>) >>

GroupX == << "x" >>
GroupY == << "y" >>

PathRootA == Path(<<>>, FileName("1", << "a" >>))
PathXC == Path(<< GroupX >>, FileName("2", << "c" >>))
PathXD == Path(<< GroupX >>, FileName("3", << "d" >>))
\* Same group and same minute as PathXC: the sort key cannot tell them apart.
PathXB == Path(<< GroupX >>, FileName("2", << "b" >>))
PathYE == Path(<< GroupY >>, FileName("0", << "e" >>))

\* The files the watched session sees created, rewritten and deleted, and
\* the documents written to them: one with three rows in Detail mode, one
\* with a single row and one with none.
DashPaths == { PathRootA, PathXC }
DashDocs == { DocProgress, DocDone, DocNoPlan }

\* The documents the two tied files hold: one in progress, one pending.
TieDocs == { DocProgress, DocNoPlan }

\* The collections the initial load is checked on.
LoadPaths == { PathRootA, PathXC, PathXD, PathXB, PathYE }
LoadDocs ==
    [p \in LoadPaths |->
       IF p = PathYE
       THEN { DocNoPlan, DocPending, DocProgress, DocDone, DocAllDone, DocOrphan }
       ELSE IF p = PathXB
       THEN { DocProgress, DocDone }
       ELSE { DocPending, DocProgress, DocDone }]

\* Files the walk must pass over: a template, a file two directories deep, a
\* file that is not markdown, and a markdown file whose name has no timestamp
\* (load_spec_summary returns None for it).
PathTemplate == Path(<< TemplatesDir >>, FileName("4", << "t" >>))
PathDeep == Path(<< GroupX, GroupY >>, FileName("5", << "n" >>))
PathText == Path(<<>>, Stamp("6") \o << "p", ".", "t", "x", "t" >>)
PathShort == Path(<< GroupX >>, << "s", ".", "m", "d" >>)

\* The collections the walk is checked on.
WalkPaths == { PathRootA, PathXC, PathTemplate, PathDeep, PathText, PathShort }
WalkDocs == [p \in WalkPaths |-> { DocProgress, DocDone }]

\* Every collection that holds some of the paths, each with one of the
\* documents docs[p] allowed there.
Collections(paths, docs) ==
    UNION { { f \in [D -> UNION { docs[p] : p \in D }] :
                \A p \in D : f[p] \in docs[p] } : D \in SUBSET paths }

\* The lines the parser is checked on, one of each kind it tells apart.
LinePlan == PlanHeading
LineHeading == << "#", " ", "B" >>
LineTopA == TaskLine(0, FALSE, << "A" >>, << "x" >>)
LineTopB == TaskLine(0, TRUE, << "B" >>, << "z" >>)
LineSubA1 == TaskLine(2, TRUE, << "A", ".", "1" >>, << "y" >>)
LineSubA2 == TaskLine(4, FALSE, << "A", ".", "2" >>, << "z" >>)
LineUpperX == << "-", " ", "[", "X", "]", " ", "B", ":", " ", "x" >>
LineNoColon == << "-", " ", "[", "x", "]", " ", "B" >>
LineBlank == << >>
LineBullet == << "-", " ", "A", ":", " ", "x" >>
LinePlanSpaced == Spaces(2) \o PlanHeading \o Spaces(1)

ParseLines ==
    { LinePlan, LineHeading, LineTopA, LineTopB, LineSubA1, LineSubA2,
      LineUpperX, LineNoColon, LineBlank, LineBullet, LinePlanSpaced }

\* Bound on the number of lines of a text given to the parser.
MaxLines == 4

\* Every text of at most MaxLines of those lines.
ParseTexts == UNION { [1..n -> ParseLines] : n \in 0..MaxLines }

\* Task lines written loosely: spaces around the id and the description and a
\* colon in the description, an empty description, an empty id, and neither.
LineLoose ==
    Spaces(3) \o CheckedMarker
    \o << " ", "A", ".", "2", " ", ":", " ", " ", "z", ":", " ", "y", " " >>
LineEmptyDesc == UncheckedMarker \o << "B", ":" >>
LineEmptyId == CheckedMarker \o << ":", " ", "x" >>
LineOnlyColon == UncheckedMarker \o << ":" >>

\* The lines the round trip of the parser is checked on.
RoundLines ==
    { LinePlan, LineHeading, LineTopA, LineSubA1, LineLoose, LineEmptyDesc,
      LineEmptyId, LineOnlyColon }

\* Every text of at most MaxLines of those lines.
RoundTexts == UNION { [1..n -> RoundLines] : n \in 0..MaxLines }

\* Bound on the change notifications pending in the channel.
MaxQueue == 2

\* ------------------------------------------------------------------------
\* commands.rs: check / uncheck
\* ------------------------------------------------------------------------

\* str::replacen(from, to, 1): the first occurrence of `from` replaced.
RECURSIVE ReplaceFirstFrom(_, _, _, _)
ReplaceFirstFrom(s, from, to, i) ==
    IF i + Len(from) - 1 > Len(s) THEN s
    ELSE IF SubSeq(s, i, i + Len(from) - 1) = from
    THEN SubSeq(s, 1, i - 1) \o to \o SubSeq(s, i + Len(from), Len(s))
    ELSE ReplaceFirstFrom(s, from, to, i + 1)

Replacen(s, from, to) == ReplaceFirstFrom(s, from, to, 1)

\* The test of the scan, were it `after.starts_with(task_id)`, without the colon.
LineMatchesIdPrefix(line, marker, task_id) ==
    LET after == StripPrefix(Trim(line), marker)
    IN  after.some /\ StartsWith(after.val, task_id)

\* The test of check_task's scan: trimmed.strip_prefix(marker) is Some(after)
\* and after.starts_with(target), target being "{task_id}:".
LineMatches(line, marker, task_id) ==
    LET after == StripPrefix(Trim(line), marker)
    IN  after.some /\ StartsWith(after.val, task_id \o << ":" >>)

\* The `for line in &mut lines` loop with its break: the index of the line it
\* rewrites, 0 if it runs to the end.
RECURSIVE ScanFrom(_, _, _, _)
ScanFrom(lines, i, marker, task_id) ==
    IF i > Len(lines) THEN 0
    ELSE IF LineMatches(lines[i], marker, task_id) THEN i
    ELSE ScanFrom(lines, i + 1, marker, task_id)

\* check_task, were a check to fall back on the line already checked (and an
\* uncheck on the unchecked one) and report success.
CheckTaskEitherState(lines, task_id, check) ==
    LET from == IF check THEN UncheckedMarker ELSE CheckedMarker
        to == IF check THEN CheckedMarker ELSE UncheckedMarker
        i == ScanFrom(lines, 1, from, task_id)
    IN  IF i = 0
        THEN [found |-> ScanFrom(lines, 1, to, task_id) # 0, lines |-> lines]
        ELSE [found |-> TRUE,
              lines |-> [lines EXCEPT ![i] = Replacen(@, from, to)]]

\* The index of the last line the scan's test accepts, 0 if there is none.
RECURSIVE ScanBackFrom(_, _, _, _)
ScanBackFrom(lines, i, marker, task_id) ==
    IF i < 1 THEN 0
    ELSE IF LineMatches(lines[i], marker, task_id) THEN i
    ELSE ScanBackFrom(lines, i - 1, marker, task_id)

\* check_task, were an uncheck to rewrite the last checked line of the id.
CheckTaskUncheckLast(lines, task_id, check) ==
    LET from == IF check THEN UncheckedMarker ELSE CheckedMarker
        to == IF check THEN CheckedMarker ELSE UncheckedMarker
        i == IF check THEN ScanFrom(lines, 1, from, task_id)
             ELSE ScanBackFrom(lines, Len(lines), from, task_id)
    IN  IF i = 0
        THEN [found |-> FALSE, lines |-> lines]
        ELSE [found |-> TRUE,
              lines |-> [lines EXCEPT ![i] = Replacen(@, from, to)]]

\* fn check_task, from the scan to the text it writes: whether a line was
\* found, and the lines of `output`.  (format_file then re-renders the file
\* through pulldown-cmark, which is not part of this repository's sources.)
check_task(lines, task_id, check) ==
    LET from == IF check THEN UncheckedMarker ELSE CheckedMarker
        to == IF check THEN CheckedMarker ELSE UncheckedMarker
        i == ScanFrom(lines, 1, from, task_id)
    IN  IF i = 0
        THEN [found |-> FALSE, lines |-> lines]
        ELSE [found |-> TRUE,
              lines |-> [lines EXCEPT ![i] = Replacen(@, from, to)]]

\* The lines check and uncheck are checked on: task A unchecked and checked,
\* its child A.1 unchecked and checked, a checked line whose description holds
\* an unchecked marker, lines that are no task lines of B, a heading and the
\* plan heading.
LineTopADone == TaskLine(0, TRUE, << "A" >>, << "x" >>)
LineSubA1Open == TaskLine(2, FALSE, << "A", ".", "1" >>, << "y" >>)
LineMarkerInText == TaskLine(0, TRUE, << "A" >>, UncheckedMarker \o << "x" >>)

CheckLines ==
    { LineTopA, LineTopADone, LineSubA1, LineSubA1Open, LineMarkerInText,
      LineTopB, LineNoColon, LinePlan }

\* The task ids given on the command line.
TaskIds == { << "A" >>, << "A", ".", "1" >>, << "B" >> }

\* Bound on the number of lines of a document given to check and uncheck.
MaxCheckLines == 3

\* Every text of at most MaxCheckLines of those lines.
CheckTexts == UNION { [1..n -> CheckLines] : n \in 0..MaxCheckLines }

\* ------------------------------------------------------------------------
\* dashboard.rs: the session
\* ------------------------------------------------------------------------

VARIABLES
    files,          \* the collection on disk: path -> lines, for the files that exist
    pc,             \* where run() is
    result,         \* run()'s result: "none", "Ok", NotTerminalError or "ErrIo"
    raw_mode,       \* terminal: raw mode enabled
    alt_screen,     \* terminal: alternate screen entered
    watching,       \* the watcher exists and watches the collection root
    fs_rx,          \* number of notifications pending in the mpsc channel
    key,            \* main_loop's `key.code` of this iteration, "none" outside it
    specs,          \* App::specs
    display_items,  \* App::display_items
    selectable,     \* App::selectable
    selected,       \* App::selected
    mode,           \* App::mode
    detail,         \* App::detail
    should_quit,    \* App::should_quit
    procs           \* the check / uncheck invocations under way, each with its locals

term == << raw_mode, alt_screen >>
app == << specs, display_items, selectable, selected, mode, detail, should_quit >>
vars == << files, pc, result, watching, fs_rx, key, term, app, procs >>

\* No check or uncheck has been started.
NoInvocation == <<>>

KeyCodes == { "q", "Up", "Down", "k", "j", "Enter", "Esc", "Space", "Other" }

\* The App literal of App::new, before its reload, with run() not yet entered.
InitSession ==
    /\ pc = "run"
    /\ result = "none"
    /\ raw_mode = FALSE
    /\ alt_screen = FALSE
    /\ watching = FALSE
    /\ fs_rx = 0
    /\ key = "none"
    /\ specs = <<>>
    /\ display_items = <<>>
    /\ selectable = <<>>
    /\ selected = 0
    /\ mode = "List"
    /\ detail = [spec_index |-> 0, collapsed |-> {}, selected |-> 0]
    /\ should_quit = FALSE
    /\ procs = NoInvocation

Init ==
    /\ files \in Collections(DashPaths, [p \in DashPaths |-> DashDocs])
    /\ InitSession

\* fn App::selected_spec_index -> Option<usize>.
selected_spec_index ==
    IF selected >= Len(selectable) THEN None
    ELSE LET item == display_items[selectable[selected + 1] + 1]
         IN  IF item.kind = "Spec" THEN Some(item.idx) ELSE None

\* fn App::reload, for one visiting order of the directory.
reload(order) ==
    \E loaded \in { load_all_summaries(files, order) } :
    \E built \in { build_display_items(loaded) } :
        /\ specs' = loaded
        /\ display_items' = built.display_items
        /\ selectable' = built.selectable
        /\ selected' = ClampSelected(selected, Len(built.selectable))

\* handle_list_key, were Enter to set only detail.spec_index and keep the
\* collapsed set and row selection of the document opened before.
HandleListKeyKeepsRows(code) ==
    /\ should_quit' = (should_quit \/ code = "q")
    /\ selected' =
          IF code \in { "Up", "k" }
          THEN (IF selected > 0 THEN selected - 1 ELSE selected)
          ELSE IF code \in { "Down", "j" }
          THEN (IF selectable # <<>> /\ selected < Len(selectable) - 1
                THEN selected + 1 ELSE selected)
          ELSE selected
    /\ IF code = "Enter" /\ selected_spec_index.some
       THEN /\ detail' = [detail EXCEPT !.spec_index = selected_spec_index.val]
            /\ mode' = "Detail"
       ELSE UNCHANGED << detail, mode >>
    /\ UNCHANGED << specs, display_items, selectable >>

\* fn handle_list_key(app, code).
handle_list_key(code) ==
    /\ should_quit' = (should_quit \/ code = "q")
    /\ selected' =
          IF code \in { "Up", "k" }
          THEN (IF selected > 0 THEN selected - 1 ELSE selected)
          ELSE IF code \in { "Down", "j" }
          THEN (IF selectable # <<>> /\ selected < Len(selectable) - 1
                THEN selected + 1 ELSE selected)
          ELSE selected
    /\ IF code = "Enter" /\ selected_spec_index.some
       THEN /\ detail' = [spec_index |-> selected_spec_index.val,
                          collapsed |-> {}, selected |-> 0]
            /\ mode' = "Detail"
       ELSE UNCHANGED << detail, mode >>
    /\ UNCHANGED << specs, display_items, selectable >>

\* The Enter / Space arm, were it to insert the index and never remove it.
ToggleCollapsedInsertOnly(d, rows) ==
    IF d.selected < Len(rows) /\ rows[d.selected + 1].kind = "TopLevel"
    THEN [d EXCEPT !.collapsed = @ \cup { rows[d.selected + 1].index }]
    ELSE d

\* The Enter / Space arm of handle_detail_key: toggle the selected TopLevel row.
ToggleCollapsed(d, rows) ==
    IF d.selected < Len(rows) /\ rows[d.selected + 1].kind = "TopLevel"
    THEN LET idx == rows[d.selected + 1].index
         IN  IF idx \in d.collapsed
             THEN [d EXCEPT !.collapsed = @ \ { idx }]
             ELSE [d EXCEPT !.collapsed = @ \cup { idx }]
    ELSE d

\* handle_detail_key, were Down to test only `row_count > 0`.
HandleDetailKeyDownUnbounded(code) ==
    LET rows == detail_rows(specs, detail)
        row_count == Len(rows)
    IN  /\ should_quit' = (should_quit \/ code = "q")
        /\ mode' = IF code = "Esc" THEN "List" ELSE mode
        /\ detail' =
              IF code \in { "Up", "k" }
              THEN (IF detail.selected > 0
                    THEN [detail EXCEPT !.selected = @ - 1] ELSE detail)
              ELSE IF code \in { "Down", "j" }
              THEN (IF row_count > 0 /\ detail.selected < row_count
                    THEN [detail EXCEPT !.selected = @ + 1] ELSE detail)
              ELSE IF code \in { "Enter", "Space" }
              THEN ToggleCollapsed(detail, rows)
              ELSE detail
        /\ UNCHANGED << specs, display_items, selectable, selected >>

\* fn handle_detail_key(app, code), when detail_rows does not panic.
handle_detail_key(code) ==
    LET rows == detail_rows(specs, detail)
        row_count == Len(rows)
    IN  /\ should_quit' = (should_quit \/ code = "q")
        /\ mode' = IF code = "Esc" THEN "List" ELSE mode
        /\ detail' =
              IF code \in { "Up", "k" }
              THEN (IF detail.selected > 0
                    THEN [detail EXCEPT !.selected = @ - 1] ELSE detail)
              ELSE IF code \in { "Down", "j" }
              THEN (IF row_count > 0 /\ detail.selected < row_count - 1
                    THEN [detail EXCEPT !.selected = @ + 1] ELSE detail)
              ELSE IF code \in { "Enter", "Space" }
              THEN ToggleCollapsed(detail, rows)
              ELSE detail
        /\ UNCHANGED << specs, display_items, selectable, selected >>

\* ---- run(): start-up ----

\* The Err of run() when stdout is not a terminal.
NotTerminalError == "Dashboard requires an interactive terminal"

\* run(), were the terminal test to come after enable_raw_mode().
NotATerminalAfterRawMode ==
    /\ pc = "run"
    /\ raw_mode' = TRUE
    /\ pc' = "returned"
    /\ result' = NotTerminalError
    /\ UNCHANGED << key, files, watching, fs_rx, alt_screen, app >>
    /\ UNCHANGED procs

\* run(): stdout is not a terminal; Err before anything is touched.
NotATerminal ==
    /\ pc = "run"
    /\ pc' = "returned"
    /\ result' = NotTerminalError
    /\ UNCHANGED << key, files, watching, fs_rx, term, app >>
    /\ UNCHANGED procs

\* run(): enable_raw_mode() succeeds.
EnableRawMode ==
    /\ pc = "run"
    /\ raw_mode' = TRUE
    /\ pc' = "enter_alt"
    /\ UNCHANGED << key, files, result, watching, fs_rx, alt_screen, app >>
    /\ UNCHANGED procs

\* run(): enable_raw_mode() fails; `?` returns the error.
EnableRawModeFails ==
    /\ pc = "run"
    /\ pc' = "returned"
    /\ result' = "ErrIo"
    /\ UNCHANGED << key, files, watching, fs_rx, term, app >>
    /\ UNCHANGED procs

\* run(): execute!(stdout, EnterAlternateScreen) succeeds.
EnterAlternateScreen ==
    /\ pc = "enter_alt"
    /\ alt_screen' = TRUE
    /\ pc' = "new_terminal"
    /\ UNCHANGED << key, files, result, watching, fs_rx, raw_mode, app >>
    /\ UNCHANGED procs

\* run(): execute!(stdout, EnterAlternateScreen) fails; `?` returns the error.
EnterAlternateScreenFails ==
    /\ pc = "enter_alt"
    /\ pc' = "returned"
    /\ result' = "ErrIo"
    /\ UNCHANGED << key, files, watching, fs_rx, term, app >>
    /\ UNCHANGED procs

\* run(): Terminal::new(backend) succeeds.
TerminalNew ==
    /\ pc = "new_terminal"
    /\ pc' = "setup_watcher"
    /\ UNCHANGED << key, files, result, watching, fs_rx, term, app >>
    /\ UNCHANGED procs

\* run(): Terminal::new(backend) fails; `?` returns the error.
TerminalNewFails ==
    /\ pc = "new_terminal"
    /\ pc' = "returned"
    /\ result' = "ErrIo"
    /\ UNCHANGED << key, files, watching, fs_rx, term, app >>
    /\ UNCHANGED procs

\* fn setup_watcher: Some(watcher) watching the root, or no notifications
\* (the watcher could not be created, could not watch, or there is no root).
setup_watcher ==
    /\ pc = "setup_watcher"
    /\ watching' \in BOOLEAN
    /\ pc' = "app_new"
    /\ UNCHANGED << key, files, result, fs_rx, term, app >>
    /\ UNCHANGED procs

\* fn App::new: the initial App and its reload.
AppNew ==
    /\ pc = "app_new"
    /\ \E order \in ReadDirOrders(files) : reload(order)
    /\ pc' = "draw"
    /\ UNCHANGED << key, files, result, watching, fs_rx, term, mode, detail, should_quit >>
    /\ UNCHANGED procs

\* ---- main_loop ----

\* terminal.draw(ui): ui indexes specs[detail.spec_index] in Detail mode and
\* panics when that is out of bounds.
Draw ==
    /\ pc = "draw"
    /\ pc' = IF mode = "Detail" /\ ~DetailIndexValid(specs, detail)
             THEN "panicked" ELSE "drain"
    /\ key' = "none"
    /\ UNCHANGED << files, result, watching, fs_rx, term, app >>
    /\ UNCHANGED procs

\* terminal.draw fails: main_loop returns Err.
DrawFails ==
    /\ pc = "draw"
    /\ pc' = "restore"
    /\ result' = "ErrIo"
    /\ UNCHANGED << key, files, watching, fs_rx, term, app >>
    /\ UNCHANGED procs

\* The drain, were it to take one notification (`if`) and not all (`while`).
DrainOneNotification ==
    /\ pc = "drain"
    /\ IF fs_rx > 0
       THEN /\ fs_rx' = fs_rx - 1
            /\ \E order \in ReadDirOrders(files) : reload(order)
       ELSE UNCHANGED << fs_rx, specs, display_items, selectable, selected >>
    /\ pc' = "poll"
    /\ UNCHANGED << key, files, result, watching, term, mode, detail, should_quit >>
    /\ UNCHANGED procs

\* The drain, were its reload to fall back to the list.
DrainBackToList ==
    /\ pc = "drain"
    /\ IF fs_rx > 0
       THEN /\ fs_rx' = 0
            /\ \E order \in ReadDirOrders(files) : reload(order)
            /\ mode' = "List"
       ELSE UNCHANGED << fs_rx, specs, display_items, selectable, selected, mode >>
    /\ pc' = "poll"
    /\ UNCHANGED << key, files, result, watching, term, detail, should_quit >>
    /\ UNCHANGED procs

\* The drain, were it to reload in every iteration, notification or none.
DrainReloadsAlways ==
    /\ pc = "drain"
    /\ fs_rx' = 0
    /\ \E order \in ReadDirOrders(files) : reload(order)
    /\ pc' = "poll"
    /\ UNCHANGED << key, files, result, watching, term, mode, detail, should_quit >>
    /\ UNCHANGED procs

\* "Drain file system events and reload once".
Drain ==
    /\ pc = "drain"
    /\ IF fs_rx > 0
       THEN /\ fs_rx' = 0
            /\ \E order \in ReadDirOrders(files) : reload(order)
       ELSE UNCHANGED << fs_rx, specs, display_items, selectable, selected >>
    /\ pc' = "poll"
    /\ UNCHANGED << key, files, result, watching, term, mode, detail, should_quit >>
    /\ UNCHANGED procs

\* event::poll times out, or the event is not a key press.
PollTimeout ==
    /\ pc = "poll"
    /\ pc' = "draw"
    /\ UNCHANGED << key, files, result, watching, fs_rx, term, app >>
    /\ UNCHANGED procs

\* event::poll or event::read fails: main_loop returns Err.
PollFails ==
    /\ pc = "poll"
    /\ pc' = "restore"
    /\ result' = "ErrIo"
    /\ UNCHANGED << key, files, watching, fs_rx, term, app >>
    /\ UNCHANGED procs

\* A key press: the mode's handler, then the should_quit test of the loop.
\* handle_detail_key's detail_rows panics on an out-of-bounds spec_index.
KeyPress ==
    /\ pc = "poll"
    /\ \E code \in KeyCodes :
         /\ key' = code
         /\ IF mode = "Detail" /\ ~DetailIndexValid(specs, detail)
            THEN /\ pc' = "panicked"
                 /\ UNCHANGED << result, app >>
            ELSE /\ IF mode = "List"
                    THEN handle_list_key(code)
                    ELSE handle_detail_key(code)
                 /\ pc' = IF should_quit' THEN "restore" ELSE "draw"
                 /\ result' = IF should_quit' THEN "Ok" ELSE result
    /\ UNCHANGED << files, watching, fs_rx, term >>
    /\ UNCHANGED procs

\* run(): "Restore terminal", then return main_loop's result; the watcher is
\* dropped.
Restore ==
    /\ pc = "restore"
    /\ raw_mode' = FALSE
    /\ alt_screen' = FALSE
    /\ watching' = FALSE
    /\ pc' = "returned"
    /\ UNCHANGED << key, files, result, fs_rx, app >>
    /\ UNCHANGED procs

\* ---- the environment ----

\* run() has not left main_loop: changes to the collection can still matter.
SessionRuns == pc \notin { "restore", "returned", "panicked" }

\* The watcher callback, were it never to send.
NotifyNothing == UNCHANGED fs_rx

\* The watcher thread's callback: tx.send(res) for a change under the root.
Notify ==
    IF watching
    THEN fs_rx < MaxQueue /\ fs_rx' = fs_rx + 1
    ELSE UNCHANGED fs_rx

\* Another process creates or rewrites a document.
FsWrite ==
    /\ SessionRuns
    /\ \E p \in DashPaths : \E d \in DashDocs :
         files' = [q \in DOMAIN files \cup { p } |-> IF q = p THEN d ELSE files[q]]
    /\ Notify
    /\ UNCHANGED << key, pc, result, watching, term, app >>
    /\ UNCHANGED procs

\* Another process deletes a document.
FsRemove ==
    /\ SessionRuns
    /\ \E p \in DOMAIN files :
         files' = [q \in DOMAIN files \ { p } |-> files[q]]
    /\ Notify
    /\ UNCHANGED << key, pc, result, watching, term, app >>
    /\ UNCHANGED procs

Next ==
    \/ NotATerminal
    \/ EnableRawMode
    \/ EnableRawModeFails
    \/ EnterAlternateScreen
    \/ EnterAlternateScreenFails
    \/ TerminalNew
    \/ TerminalNewFails
    \/ setup_watcher
    \/ AppNew
    \/ Draw
    \/ DrawFails
    \/ Drain
    \/ PollTimeout
    \/ PollFails
    \/ KeyPress
    \/ Restore
    \/ FsWrite
    \/ FsRemove

Spec == Init /\ [][Next]_vars

\* ---- the initial load alone, over every collection ----

InitLoad ==
    /\ files \in Collections(LoadPaths, LoadDocs)
    /\ pc = "app_new"
    /\ result = "none"
    /\ raw_mode = TRUE
    /\ alt_screen = TRUE
    /\ watching = TRUE
    /\ fs_rx = 0
    /\ key = "none"
    /\ specs = <<>>
    /\ display_items = <<>>
    /\ selectable = <<>>
    /\ selected = 0
    /\ mode = "List"
    /\ detail = [spec_index |-> 0, collapsed |-> {}, selected |-> 0]
    /\ should_quit = FALSE
    /\ procs = NoInvocation

NextLoad == AppNew

SpecLoad == InitLoad /\ [][NextLoad]_vars

\* ---- the initial load alone, over collections with files to pass over ----

InitWalk ==
    /\ files \in Collections(WalkPaths, WalkDocs)
    /\ pc = "app_new"
    /\ result = "none"
    /\ raw_mode = TRUE
    /\ alt_screen = TRUE
    /\ watching = TRUE
    /\ fs_rx = 0
    /\ key = "none"
    /\ specs = <<>>
    /\ display_items = <<>>
    /\ selectable = <<>>
    /\ selected = 0
    /\ mode = "List"
    /\ detail = [spec_index |-> 0, collapsed |-> {}, selected |-> 0]
    /\ should_quit = FALSE
    /\ procs = NoInvocation

NextWalk == AppNew

SpecWalk == InitWalk /\ [][NextWalk]_vars

\* ---- the main loop over two documents that the sort cannot tell apart ----

\* Another process saves an existing document again (the same or another
\* content); the directory keeps the same names.
FsTouch ==
    /\ SessionRuns
    /\ \E p \in DOMAIN files : \E d \in TieDocs :
         files' = [files EXCEPT ![p] = d]
    /\ Notify
    /\ UNCHANGED << key, pc, result, watching, term, app >>
    /\ UNCHANGED procs

\* Two documents of one group, created in the same minute; terminal set up
\* and watcher running, App::new about to load.
InitTies ==
    /\ files \in Collections({ PathXB, PathXC }, [p \in { PathXB, PathXC } |-> TieDocs])
    /\ DOMAIN files = { PathXB, PathXC }
    /\ pc = "app_new"
    /\ result = "none"
    /\ raw_mode = TRUE
    /\ alt_screen = TRUE
    /\ watching = TRUE
    /\ fs_rx = 0
    /\ key = "none"
    /\ specs = <<>>
    /\ display_items = <<>>
    /\ selectable = <<>>
    /\ selected = 0
    /\ mode = "List"
    /\ detail = [spec_index |-> 0, collapsed |-> {}, selected |-> 0]
    /\ should_quit = FALSE
    /\ procs = NoInvocation

NextTies ==
    \/ AppNew
    \/ Draw
    \/ Drain
    \/ PollTimeout
    \/ KeyPress
    \/ Restore
    \/ FsTouch

SpecTies == InitTies /\ [][NextTies]_vars

\* The places run() can be at from its initial load on.
LoopPcValues == { "app_new", "draw", "drain", "poll", "restore", "returned", "panicked" }

\* run() moves on and nothing else changes.
RunMovesOn ==
    /\ pc \in { "app_new", "draw", "drain", "poll", "restore" }
    /\ pc' \in LoopPcValues \ { pc }
    /\ UNCHANGED << files, result, watching, fs_rx, key, term, app >>
    /\ UNCHANGED procs

\* A step of the thread of run().  A step of run() is possible exactly where
\* the first disjunct is, so that disjunct alone decides ENABLED RunStep; of
\* the steps the specification allows, those that satisfy RunStep are the
\* steps of run().
RunStep ==
    \/ RunMovesOn
    \/ AppNew
    \/ Draw
    \/ Drain
    \/ PollTimeout
    \/ KeyPress
    \/ Restore

\* The same, with the thread of run() scheduled fairly; event::poll returns
\* after its timeout at the latest, so no step of the loop waits for ever.
SpecTiesLive == SpecTies /\ WF_vars(RunStep)

\* ---- check and uncheck, over every text ----

\* Result<(), String> of a check or uncheck, with what it printed.
Checked(task_id) == [status |-> "Ok", action |-> "Checked", task_id |-> task_id]
Unchecked(task_id) == [status |-> "Ok", action |-> "Unchecked", task_id |-> task_id]
NoTaskFound(state, task_id) == [status |-> "Err", state |-> state, task_id |-> task_id]

\* The spec names given on the command line.
SpecNames == { << "a" >> }

\* One invocation of `check` or `uncheck`: find_spec, then check_task's scan
\* and write on the document found.
CheckTask ==
    /\ pc = "check_task"
    /\ \E name \in SpecNames : \E task_id \in TaskIds : \E check \in BOOLEAN :
       \E order \in ReadDirOrders(files) :
       \E spec \in { find_spec(files, order, name) } :
         IF ~spec.ok
         THEN /\ UNCHANGED files
              /\ result' = [status |-> "Err", name |-> spec.name]
         ELSE
           \E r \in { check_task(files[spec.path], task_id, check) } :
             IF r.found
             THEN /\ files' = [files EXCEPT ![spec.path] = r.lines]
                  /\ result' = IF check THEN Checked(task_id) ELSE Unchecked(task_id)
             ELSE /\ UNCHANGED files
                  /\ result' = NoTaskFound(IF check THEN "unchecked" ELSE "checked",
                                           task_id)
    /\ UNCHANGED << pc, key, watching, fs_rx, term, app >>
    /\ UNCHANGED procs

InitCheck ==
    /\ \E text \in CheckTexts : files = [p \in { PathRootA } |-> text]
    /\ pc = "check_task"
    /\ result = [status |-> "none"]
    /\ raw_mode = FALSE
    /\ alt_screen = FALSE
    /\ watching = FALSE
    /\ fs_rx = 0
    /\ key = "none"
    /\ specs = <<>>
    /\ display_items = <<>>
    /\ selectable = <<>>
    /\ selected = 0
    /\ mode = "List"
    /\ detail = [spec_index |-> 0, collapsed |-> {}, selected |-> 0]
    /\ should_quit = FALSE
    /\ procs = NoInvocation

NextCheck == CheckTask

SpecCheck == InitCheck /\ [][NextCheck]_vars

\* ---- check and uncheck where several documents have the same name ----

\* Documents named "a" like PathRootA (of day 1): an older one in group x and
\* a newer one in group y.
PathXA == Path(<< GroupX >>, FileName("0", << "a" >>))
PathYA == Path(<< GroupY >>, FileName("2", << "a" >>))

FindPaths == { PathRootA, PathXA, PathYA }
FindDocs == [p \in FindPaths |-> { << LineTopA >>, << LineTopADone >> }]

InitFind ==
    /\ files \in Collections(FindPaths, FindDocs)
    /\ pc = "check_task"
    /\ result = [status |-> "none"]
    /\ raw_mode = FALSE
    /\ alt_screen = FALSE
    /\ watching = FALSE
    /\ fs_rx = 0
    /\ key = "none"
    /\ specs = <<>>
    /\ display_items = <<>>
    /\ selectable = <<>>
    /\ selected = 0
    /\ mode = "List"
    /\ detail = [spec_index |-> 0, collapsed |-> {}, selected |-> 0]
    /\ should_quit = FALSE
    /\ procs = NoInvocation

NextFind == CheckTask

SpecFind == InitFind /\ [][NextFind]_vars

\* ---- two check / uncheck invocations at the same time ----

\* The invocations, two processes started by two shells.
Invocations == { 1, 2 }

\* An invocation about to read the document, with its command line.
Started(task_id, check) ==
    [at |-> "read", task_id |-> task_id, check |-> check,
     found |-> FALSE, hit |-> 0, lines |-> <<>>]

\* check_task up to its write: fs::read_to_string, the scan on the lines read,
\* and the Err return when the scan found nothing.
CheckRead ==
    /\ pc = "check_task"
    /\ \E p \in DOMAIN procs : \E path \in DOMAIN files :
         /\ procs[p].at = "read"
         /\ \E r \in { check_task(files[path], procs[p].task_id, procs[p].check) } :
              procs' = [procs EXCEPT ![p] =
                 [@ EXCEPT !.at = IF r.found THEN "write" ELSE "returned",
                           !.found = r.found,
                           !.hit = ScanFrom(files[path], 1,
                                            IF procs[p].check THEN UncheckedMarker
                                            ELSE CheckedMarker, procs[p].task_id),
                           !.lines = r.lines]]
    /\ UNCHANGED << files, pc, result, key, watching, fs_rx, term, app >>

\* check_task's fs::write of the lines it read and rewrote.
CheckWrite ==
    /\ pc = "check_task"
    /\ \E p \in DOMAIN procs : \E path \in DOMAIN files :
         /\ procs[p].at = "write"
         /\ files' = [files EXCEPT ![path] = procs[p].lines]
         /\ procs' = [procs EXCEPT ![p].at = "returned"]
    /\ UNCHANGED << pc, result, key, watching, fs_rx, term, app >>

InitRace ==
    /\ \E text \in CheckTexts : files = [p \in { PathRootA } |-> text]
    /\ \E ids \in [Invocations -> TaskIds] : \E checks \in [Invocations -> BOOLEAN] :
         /\ ids[1] # ids[2]
         /\ procs = [p \in Invocations |-> Started(ids[p], checks[p])]
    /\ pc = "check_task"
    /\ result = [status |-> "none"]
    /\ raw_mode = FALSE
    /\ alt_screen = FALSE
    /\ watching = FALSE
    /\ fs_rx = 0
    /\ key = "none"
    /\ specs = <<>>
    /\ display_items = <<>>
    /\ selectable = <<>>
    /\ selected = 0
    /\ mode = "List"
    /\ detail = [spec_index |-> 0, collapsed |-> {}, selected |-> 0]
    /\ should_quit = FALSE

NextRace == CheckRead \/ CheckWrite

SpecRace == InitRace /\ [][NextRace]_vars

\* ---- the initial load of one document, over every text ----

InitParse ==
    /\ \E text \in ParseTexts : files = [p \in { PathRootA } |-> text]
    /\ pc = "app_new"
    /\ result = "none"
    /\ raw_mode = TRUE
    /\ alt_screen = TRUE
    /\ watching = TRUE
    /\ fs_rx = 0
    /\ key = "none"
    /\ specs = <<>>
    /\ display_items = <<>>
    /\ selectable = <<>>
    /\ selected = 0
    /\ mode = "List"
    /\ detail = [spec_index |-> 0, collapsed |-> {}, selected |-> 0]
    /\ should_quit = FALSE
    /\ procs = NoInvocation

NextParse == AppNew

SpecParse == InitParse /\ [][NextParse]_vars

\* ---- the initial load of one document, over loosely written texts ----

InitRound ==
    /\ \E text \in RoundTexts : files = [p \in { PathRootA } |-> text]
    /\ pc = "app_new"
    /\ result = "none"
    /\ raw_mode = TRUE
    /\ alt_screen = TRUE
    /\ watching = TRUE
    /\ fs_rx = 0
    /\ key = "none"
    /\ specs = <<>>
    /\ display_items = <<>>
    /\ selectable = <<>>
    /\ selected = 0
    /\ mode = "List"
    /\ detail = [spec_index |-> 0, collapsed |-> {}, selected |-> 0]
    /\ should_quit = FALSE
    /\ procs = NoInvocation

NextRound == AppNew

SpecRound == InitRound /\ [][NextRound]_vars

\* ------------------------------------------------------------------------
\* Properties
\* ------------------------------------------------------------------------

\* A step of main_loop's drain that found a notification and reloaded.
ReloadStep == pc = "drain" /\ pc' = "poll" /\ fs_rx > 0

\* The summary open in Detail mode, for the summaries and detail state given.
OpenSpec(summaries, d) == summaries[d.spec_index + 1]

\* The row selection clamped into a sequence of n rows (0 when there are none).
ClampedRow(sel, n) == IF n = 0 THEN 0 ELSE IF sel < n - 1 THEN sel ELSE n - 1

\* The indices of the top-level tasks of a summary.
TaskIndices(s) == 0..(Len(s.tasks) - 1)

\* C1: a reload in Detail mode after which the open document (the same
\* document at the same index) has fewer top-level tasks clamps the row
\* selection into the new row sequence and leaves in the collapsed set
\* exactly the indices of top-level tasks that still exist; neither is reset.
C1_ReloadClampsDetailState ==
    [][ ( /\ ReloadStep
          /\ mode = "Detail"
          /\ DetailIndexValid(specs, detail)
          /\ DetailIndexValid(specs', detail')
          /\ OpenSpec(specs', detail').name = OpenSpec(specs, detail).name
          /\ Len(OpenSpec(specs', detail').tasks) < Len(OpenSpec(specs, detail).tasks) )
        => ( /\ detail'.collapsed =
                  detail.collapsed \cap TaskIndices(OpenSpec(specs', detail'))
             /\ detail'.selected =
                  ClampedRow(detail.selected, Len(detail_rows(specs', detail'))) ) ]_vars

\* C2: when a summary with the open document's name still exists after a
\* reload in Detail mode, Detail mode shows the document of that name.
C2_ReloadKeepsOpenDocument ==
    [][ ( /\ ReloadStep
          /\ mode = "Detail"
          /\ DetailIndexValid(specs, detail)
          /\ \E j \in 1..Len(specs') :
               specs'[j].name = OpenSpec(specs, detail).name )
        => ( /\ mode' = "Detail"
             /\ DetailIndexValid(specs', detail')
             /\ OpenSpec(specs', detail').name = OpenSpec(specs, detail).name ) ]_vars

\* C3: whenever run has returned, raw mode is disabled and the alternate
\* screen has been left.
C3_TerminalRestoredOnReturn ==
    pc = "returned" => (~raw_mode /\ ~alt_screen)

\* The list selection ordinal is in [0, selectable_count - 1], 0 when empty.
ListSelectionInRange ==
    IF selectable = <<>> THEN selected = 0
    ELSE selected \in 0..(Len(selectable) - 1)

\* A step in which handle_list_key handled one of the given key codes.
ListKeyStep(codes) == pc = "poll" /\ mode = "List" /\ key' \in codes

\* C4: the list selection ordinal is always in [0, selectable_count - 1], and
\* 0 for an empty collection; Up/k and Down/j in List mode change it by at
\* most one, and not at all at the bound they move towards or on an empty
\* collection.
C4_ListSelectionClamped ==
    /\ ListSelectionInRange
    /\ [][ /\ ListSelectionInRange'
           /\ ListKeyStep({ "Up", "k" }) =>
                /\ selected' \in { selected, selected - 1 }
                /\ (selected = 0 \/ selectable = <<>>) => selected' = selected
                /\ selected > 0 => selected' # selected
           /\ ListKeyStep({ "Down", "j" }) =>
                /\ selected' \in { selected, selected + 1 }
                /\ (selectable = <<>> \/ selected = Len(selectable) - 1)
                      => selected' = selected
                /\ (selectable # <<>> /\ selected < Len(selectable) - 1)
                      => selected' # selected
         ]_vars

\* Down was pressed in List mode and the selection sits on the last of two rows.
C4_Witness ==
    /\ mode = "List"
    /\ key \in { "Down", "j" }
    /\ Len(selectable) = 2
    /\ selected = 1

\* C5: every selection ordinal maps to a flat index that holds a Spec row,
\* distinct ordinals map to distinct rows (of distinct summaries), and there
\* are as many ordinals as summaries.
C5_OrdinalsResolveToSpecRows ==
    /\ Len(selectable) = Len(specs)
    /\ \A i \in 1..Len(selectable) :
         /\ selectable[i] \in 0..(Len(display_items) - 1)
         /\ display_items[selectable[i] + 1].kind = "Spec"
         /\ display_items[selectable[i] + 1].idx \in 0..(Len(specs) - 1)
    /\ \A i \in 1..Len(selectable) : \A j \in 1..Len(selectable) :
         i # j =>
           /\ selectable[i] # selectable[j]
           /\ display_items[selectable[i] + 1].idx
                # display_items[selectable[j] + 1].idx

\* A loaded list that starts with a group header and has three documents.
C5_Witness ==
    /\ pc = "draw"
    /\ Len(specs) >= 3
    /\ display_items[1].kind = "GroupHeader"
    /\ Cardinality({ i \in 1..Len(display_items) :
                       display_items[i].kind = "GroupHeader" }) >= 2

\* C6: for every loaded summary, Completed iff total > 0 and checked = total,
\* InProgress iff 0 < checked < total, Pending otherwise.
C6_StatusFromCounts ==
    \A i \in 1..Len(specs) :
       LET s == specs[i]
           done == s.total > 0 /\ s.checked = s.total
           partly == 0 < s.checked /\ s.checked < s.total
       IN  /\ s.status \in { InProgress, Pending, Completed }
           /\ (s.status = Completed) <=> done
           /\ (s.status = InProgress) <=> partly
           /\ (s.status = Pending) <=> (~done /\ ~partly)

\* The loaded summaries show all four cases: no tasks, none checked, some, all.
C6_Witness ==
    /\ \E i \in 1..Len(specs) : specs[i].total = 0 /\ specs[i].status = Pending
    /\ \E i \in 1..Len(specs) :
         specs[i].total > 0 /\ specs[i].checked = 0 /\ specs[i].status = Pending
    /\ \E i \in 1..Len(specs) : specs[i].status = InProgress
    /\ \E i \in 1..Len(specs) : specs[i].status = Completed

\* The nodes of a forest: <<i, 0>> for top-level task i, <<i, j>> for its child j.
NodesOf(tasks) ==
    { << i, 0 >> : i \in 1..Len(tasks) }
    \cup UNION { { << i, j >> : j \in 1..Len(tasks[i].children) } :
                 i \in 1..Len(tasks) }

NodeChecked(tasks, n) ==
    IF n[2] = 0 THEN tasks[n[1]].checked ELSE tasks[n[1]].children[n[2]].checked

\* C7: total is the number of nodes (each top-level task and each of its
\* children), checked the number of checked nodes, and checked <= total.
C7_CountsAllNodes ==
    \A i \in 1..Len(specs) :
       LET s == specs[i]
       IN  /\ s.total = Cardinality(NodesOf(s.tasks))
           /\ s.checked =
                Cardinality({ n \in NodesOf(s.tasks) : NodeChecked(s.tasks, n) })
           /\ s.checked <= s.total

\* A loaded summary of two top-level tasks and a child, two of them checked.
C7_Witness ==
    \E i \in 1..Len(specs) :
       /\ Len(specs[i].tasks) = 2
       /\ Len(specs[i].tasks[1].children) = 1
       /\ specs[i].total = 3
       /\ specs[i].checked = 2

\* C8: no Completed document comes before a document that is not Completed.
C8_IncompleteBeforeCompleted ==
    \A i \in 1..Len(specs) : \A j \in 1..Len(specs) :
       (i < j /\ specs[i].status = Completed) => specs[j].status = Completed

\* An incomplete document of a named group, with a later timestamp, precedes
\* an ungrouped Completed one.
C8_Witness ==
    \E i \in 1..Len(specs) : \E j \in 1..Len(specs) :
       /\ i < j
       /\ specs[i].status # Completed
       /\ specs[i].group.some
       /\ specs[j].status = Completed
       /\ ~specs[j].group.some
       /\ StrCmp(specs[j].timestamp, specs[i].timestamp) = Less

\* a is a proper prefix of b, or is smaller at the first character that differs.
StrBefore(a, b) ==
    \E k \in 1..(Len(b)) :
       /\ \A m \in 1..(k - 1) : m <= Len(a) /\ a[m] = b[m]
       /\ k > Len(a) \/ Code[a[k]] < Code[b[k]]

\* None before any named group, named groups in string order.
GroupBefore(g, h) ==
    \/ ~g.some /\ h.some
    \/ g.some /\ h.some /\ StrBefore(g.val, h.val)

\* a may precede b under the key (completed?, group, timestamp), timestamps
\* ascending among the incomplete and descending among the completed.
KeyOrdered(a, b) ==
    LET a_done == a.status = Completed
        b_done == b.status = Completed
    IN  \/ ~a_done /\ b_done
        \/ /\ a_done = b_done
           /\ \/ GroupBefore(a.group, b.group)
              \/ /\ a.group = b.group
                 /\ IF a_done
                    THEN ~StrBefore(a.timestamp, b.timestamp)
                    ELSE ~StrBefore(b.timestamp, a.timestamp)

C10_OldestInProgressFirstAnyGroup ==
    \A i \in 1..Len(specs) : \A j \in 1..Len(specs) :
       ( /\ specs[i].status = InProgress
         /\ specs[j].status = InProgress
         /\ StrBefore(specs[i].timestamp, specs[j].timestamp) ) => i < j

\* C10, amended: of two InProgress documents of the same group, the one with
\* the smaller timestamp comes first.
C10_OldestInProgressFirstInGroup ==
    \A i \in 1..Len(specs) : \A j \in 1..Len(specs) :
       ( /\ specs[i].status = InProgress
         /\ specs[j].status = InProgress
         /\ specs[i].group = specs[j].group
         /\ StrBefore(specs[i].timestamp, specs[j].timestamp) ) => i < j

\* Two InProgress documents of one named group with different timestamps.
C10_Witness ==
    \E i \in 1..Len(specs) : \E j \in 1..Len(specs) :
       /\ specs[i].status = InProgress
       /\ specs[j].status = InProgress
       /\ specs[i].group.some
       /\ specs[i].group = specs[j].group
       /\ StrBefore(specs[i].timestamp, specs[j].timestamp)

\* C11 as stated: of two Completed documents, the one with the larger
\* timestamp comes first, whatever their groups.
C11_NewestCompletedFirstAnyGroup ==
    \A i \in 1..Len(specs) : \A j \in 1..Len(specs) :
       ( /\ specs[i].status = Completed
         /\ specs[j].status = Completed
         /\ StrBefore(specs[i].timestamp, specs[j].timestamp) ) => j < i

\* C11, amended: of two Completed documents of the same group, the one with
\* the larger timestamp comes first.
C11_NewestCompletedFirstInGroup ==
    \A i \in 1..Len(specs) : \A j \in 1..Len(specs) :
       ( /\ specs[i].status = Completed
         /\ specs[j].status = Completed
         /\ specs[i].group = specs[j].group
         /\ StrBefore(specs[i].timestamp, specs[j].timestamp) ) => j < i

\* Two Completed documents of one named group with different timestamps.
C11_Witness ==
    \E i \in 1..Len(specs) : \E j \in 1..Len(specs) :
       /\ specs[i].status = Completed
       /\ specs[j].status = Completed
       /\ specs[i].group.some
       /\ specs[i].group = specs[j].group
       /\ StrBefore(specs[i].timestamp, specs[j].timestamp)

\* The sum of f over the summaries at the positions in S.
RECURSIVE SumOver(_, _, _)
SumOver(summaries, S, field) ==
    IF S = {} THEN 0
    ELSE LET i == CHOOSE k \in S : TRUE
         IN  (IF field = "checked" THEN summaries[i].checked
              ELSE summaries[i].total)
             + SumOver(summaries, S \ { i }, field)

\* The positions of the summaries whose group is exactly g.
MembersOf(summaries, g) ==
    { i \in 1..Len(summaries) :
        summaries[i].group.some /\ summaries[i].group.val = g }

\* The positions of the display list that hold a header of group g.
HeadersOf(items, g) ==
    { i \in 1..Len(items) : items[i].kind = "GroupHeader" /\ items[i].name = g }

\* C12: every group header carries the sums of checked and total over all
\* summaries of exactly its group, also when the group has several headers.
C12_HeaderAggregatesWholeGroup ==
    \A i \in 1..Len(display_items) :
       display_items[i].kind = "GroupHeader" =>
          LET members == MembersOf(specs, display_items[i].name)
          IN  /\ display_items[i].checked = SumOver(specs, members, "checked")
              /\ display_items[i].total = SumOver(specs, members, "total")

\* A group with rows in both tiers that are not contiguous: it has two
\* headers, and its sums are over more than one document.
C12_Witness ==
    \E i \in 1..Len(display_items) :
       /\ display_items[i].kind = "GroupHeader"
       /\ Cardinality(HeadersOf(display_items, display_items[i].name)) = 2
       /\ Cardinality(MembersOf(specs, display_items[i].name)) >= 2
       /\ display_items[i].total >= 2

\* ---- the parser's contract, stated on the kinds of line ----

\* The initial load has run.
Loaded == pc = "draw"

\* What the format makes of each line: the plan heading, another top-level
\* heading, a task line without or with indentation, or none of these.
ClassOf(line) ==
    IF line \in { LinePlan, LinePlanSpaced } THEN "plan"
    ELSE IF line = LineHeading THEN "heading"
    ELSE IF line \in { LineTopA, LineTopB } THEN "top"
    ELSE IF line \in { LineSubA1, LineSubA2 } THEN "sub"
    ELSE "other"

\* The node a task line stands for.
NodeOf(line) ==
    IF line = LineTopA THEN TaskNode(<< "A" >>, << "x" >>, FALSE, <<>>)
    ELSE IF line = LineTopB THEN TaskNode(<< "B" >>, << "z" >>, TRUE, <<>>)
    ELSE IF line = LineSubA1 THEN TaskNode(<< "A", ".", "1" >>, << "y" >>, TRUE, <<>>)
    ELSE TaskNode(<< "A", ".", "2" >>, << "z" >>, FALSE, <<>>)

\* The position of the first plan heading, 0 if there is none.
FirstPlan(text) ==
    IF \E i \in 1..Len(text) : ClassOf(text[i]) = "plan"
    THEN CHOOSE i \in 1..Len(text) :
           /\ ClassOf(text[i]) = "plan"
           /\ \A j \in 1..(i - 1) : ClassOf(text[j]) # "plan"
    ELSE 0

\* The position of the next `# ` line after the first plan heading (a plan
\* heading again, or another heading), Len(text) + 1 if there is none.
WindowEnd(text) ==
    LET h == FirstPlan(text)
        ends == { i \in (h + 1)..Len(text) :
                    ClassOf(text[i]) \in { "plan", "heading" } }
    IN  IF ends = {} THEN Len(text) + 1
        ELSE CHOOSE i \in ends : \A j \in ends : i <= j

\* The positions strictly inside the window.
Window(text) ==
    IF FirstPlan(text) = 0 THEN {}
    ELSE (FirstPlan(text) + 1)..(WindowEnd(text) - 1)

\* The text without its line i.
Remove(text, i) == SubSeq(text, 1, i - 1) \o SubSeq(text, i + 1, Len(text))

\* The text of the one document loaded, and the forest parsed from it.
LoadedText == files[PathRootA]
LoadedTasks == specs[1].tasks

\* C13: nodes come only from the lines strictly after the first plan heading
\* and strictly before the next `# ` line (a repeated plan heading included):
\* the forest is that of the heading and the window alone, and empty when
\* there is no plan heading.
C13_NodesOnlyFromWindow ==
    Loaded =>
      LET h == FirstPlan(LoadedText)
          e == WindowEnd(LoadedText)
      IN  LoadedTasks =
            IF h = 0 THEN <<>> ELSE parse_tasks(SubSeq(LoadedText, h, e - 1))

\* A forest as the sequence of its nodes in order, each with its level.
RECURSIVE Flat(_)
Flat(tasks) ==
    IF tasks = <<>> THEN <<>>
    ELSE LET t == Head(tasks)
         IN  << [level |-> 0, node |-> [t EXCEPT !.children = <<>>]] >>
             \o [j \in 1..Len(t.children) |-> [level |-> 1, node |-> t.children[j]]]
             \o Flat(Tail(tasks))

\* The nodes the task lines at positions i..(e - 1) stand for, in line order:
\* level 0 without indentation, level 1 with any, none for an indented line
\* that has no top-level task line before it.
RECURSIVE ExpectedFlat(_, _, _, _)
ExpectedFlat(text, i, e, seen_top) ==
    IF i >= e THEN <<>>
    ELSE LET c == ClassOf(text[i])
         IN  IF c = "top"
             THEN << [level |-> 0, node |-> NodeOf(text[i])] >>
                  \o ExpectedFlat(text, i + 1, e, TRUE)
             ELSE IF c = "sub" /\ seen_top
             THEN << [level |-> 1, node |-> NodeOf(text[i])] >>
                  \o ExpectedFlat(text, i + 1, e, seen_top)
             ELSE ExpectedFlat(text, i + 1, e, seen_top)

IsPrefix(a, b) == Len(a) <= Len(b) /\ SubSeq(b, 1, Len(a)) = a

\* C14: the task lines of the window give, in line order, a top-level node
\* when not indented and a child of the latest top-level node when indented
\* (however deep); no child has children.
C14_TwoLevelsInLineOrder ==
    Loaded =>
      LET h == FirstPlan(LoadedText)
          e == WindowEnd(LoadedText)
          expected == IF h = 0 THEN <<>> ELSE ExpectedFlat(LoadedText, h + 1, e, FALSE)
      IN  /\ \A t \in 1..Len(LoadedTasks) :
                \A c \in 1..Len(LoadedTasks[t].children) :
                   LoadedTasks[t].children[c].children = <<>>
          /\ IsPrefix(expected, Flat(LoadedTasks))
          /\ e > Len(LoadedText) => Flat(LoadedTasks) = expected

\* A top-level task with a child at depth 2 and a child at depth 4.
C14_Witness ==
    /\ Loaded
    /\ LoadedText = << LinePlan, LineTopA, LineSubA1, LineSubA2 >>
    /\ Len(LoadedTasks) = 1
    /\ Len(LoadedTasks[1].children) = 2

\* The indented task lines of the window that have no top-level task line
\* before them.
Orphans(text) ==
    { i \in Window(text) :
        /\ ClassOf(text[i]) = "sub"
        /\ \A j \in Window(text) : j < i => ClassOf(text[j]) # "top" }

\* C15: an indented task line before any top-level task line of the window
\* adds no node and is not counted: the forest and the counts are those of
\* the text without that line.
C15_OrphanDropped ==
    Loaded =>
      \A i \in Orphans(LoadedText) :
         LET without == parse_tasks(Remove(LoadedText, i))
         IN  /\ LoadedTasks = without
             /\ specs[1].total = Len(Flat(without))
             /\ specs[1].checked =
                   Cardinality({ k \in 1..Len(Flat(without)) :
                                   Flat(without)[k].node.checked })

\* A checked orphan, then a top-level task with a child: two nodes, one checked.
C15_Witness ==
    /\ Loaded
    /\ LoadedText = << LinePlan, LineSubA1, LineTopA, LineSubA1 >>
    /\ Orphans(LoadedText) = { 2 }
    /\ specs[1].total = 2
    /\ specs[1].checked = 1

\* A sequence of nodes with the fields of TaskNode.
IsForest(tasks) ==
    \A t \in 1..Len(tasks) :
       /\ DOMAIN tasks[t] = { "id", "description", "checked", "children" }
       /\ tasks[t].checked \in BOOLEAN

\* C16: parsing yields a forest for every text, and a line of the window that
\* is neither a heading nor a well-formed task line adds no node and does not
\* stop the scan: the forest is that of the text without the line.
C16_MalformedLinesIgnored ==
    Loaded =>
      /\ IsForest(LoadedTasks)
      /\ \A i \in Window(LoadedText) :
            ClassOf(LoadedText[i]) = "other" =>
               LoadedTasks = parse_tasks(Remove(LoadedText, i))

\* A checkbox line without a colon and a `- [X] ` line, then a task.
C16_Witness ==
    /\ Loaded
    /\ LoadedText = << LinePlan, LineNoColon, LineUpperX, LineTopB >>
    /\ Len(LoadedTasks) = 1

\* ---- the two modes ----

\* A step in which handle_detail_key was called with one of the given key codes.
DetailKeyStep(codes) == pc = "poll" /\ mode = "Detail" /\ key' \in codes

\* The list selection sits on a row of the display list that is a Spec row.
SelectionOnSpecRow ==
    /\ selected < Len(selectable)
    /\ selectable[selected + 1] < Len(display_items)
    /\ display_items[selectable[selected + 1] + 1].kind = "Spec"

\* C17: the session starts in List mode; only Enter in List mode leads to
\* Detail mode; Enter on a Spec row opens the selected summary with an empty
\* collapsed set and row selection 0; Enter without such a row (so on an
\* empty collection) changes nothing.
C17_EnterOpensSelectedDocument ==
    /\ mode = "List"
    /\ [][ /\ (mode = "List" /\ mode' = "Detail") =>
                (ListKeyStep({ "Enter" }) /\ SelectionOnSpecRow)
           /\ (ListKeyStep({ "Enter" }) /\ SelectionOnSpecRow) =>
                /\ mode' = "Detail"
                /\ detail' =
                      [spec_index |-> display_items[selectable[selected + 1] + 1].idx,
                       collapsed |-> {}, selected |-> 0]
                /\ DetailIndexValid(specs', detail')
                /\ OpenSpec(specs', detail') = specs[selected + 1]
                /\ UNCHANGED << specs, display_items, selectable, selected, should_quit >>
           /\ (ListKeyStep({ "Enter" }) /\ ~SelectionOnSpecRow) => UNCHANGED app
           /\ (ListKeyStep({ "Enter" }) /\ specs = <<>>) =>
                (mode' = "List" /\ UNCHANGED app)
         ]_vars

\* Enter opened the second of two documents.
C17_Witness ==
    /\ key = "Enter"
    /\ mode = "Detail"
    /\ Len(specs) = 2
    /\ detail = [spec_index |-> 1, collapsed |-> {}, selected |-> 0]

\* C18: Escape in Detail mode returns to List mode and leaves the list
\* selection, the summaries and the display list unchanged; Escape in List
\* mode changes nothing.
C18_EscapeReturnsToList ==
    [][ /\ DetailKeyStep({ "Esc" }) =>
              (mode' = "List" /\ UNCHANGED << selected, specs, display_items >>)
        /\ ListKeyStep({ "Esc" }) => UNCHANGED app
      ]_vars

\* The open document exists and the row selection is a valid index into its
\* rows (whenever it has rows).
RowSelectionOK(summaries, d) ==
    /\ DetailIndexValid(summaries, d)
    /\ detail_rows(summaries, d) # <<>> =>
          d.selected \in 0..(Len(detail_rows(summaries, d)) - 1)

\* C19: the row selection is valid when a document is opened and stays valid
\* over Up/Down/Enter/Space in Detail mode; Up and Down move it by exactly
\* one, and not at all at the bound they move towards.
C19_DetailSelectionStaysValid ==
    [][ /\ (ListKeyStep({ "Enter" }) /\ mode' = "Detail") =>
              RowSelectionOK(specs', detail')
        /\ ( /\ DetailKeyStep({ "Up", "k", "Down", "j", "Enter", "Space" })
             /\ RowSelectionOK(specs, detail) ) =>
              RowSelectionOK(specs', detail')
        /\ (DetailKeyStep({ "Up", "k" }) /\ RowSelectionOK(specs, detail)) =>
              detail'.selected =
                 IF detail.selected = 0 THEN 0 ELSE detail.selected - 1
        /\ (DetailKeyStep({ "Down", "j" }) /\ RowSelectionOK(specs, detail)) =>
              LET n == Len(detail_rows(specs, detail))
              IN  detail'.selected =
                     IF n = 0 \/ detail.selected = n - 1
                     THEN detail.selected ELSE detail.selected + 1
      ]_vars

\* Down was pressed with the selection on the last of three rows.
C19_Witness ==
    /\ mode = "Detail"
    /\ key \in { "Down", "j" }
    /\ RowSelectionOK(specs, detail)
    /\ Len(detail_rows(specs, detail)) = 3
    /\ detail.selected = 2

\* C20: Enter or Space on a selected TopLevel row flips exactly that task's
\* index in the collapsed set and changes nothing else; on a SubTask row it
\* changes nothing; a second Enter or Space on the same row restores the
\* collapsed set and the number of rows.
C20_ToggleFlipsOneIndex ==
    [][ ( /\ DetailKeyStep({ "Enter", "Space" })
          /\ DetailIndexValid(specs, detail)
          /\ detail.selected < Len(detail_rows(specs, detail)) ) =>
           LET rows == detail_rows(specs, detail)
               row == rows[detail.selected + 1]
               rows2 == detail_rows(specs', detail')
               again == ToggleCollapsed(detail', rows2)
           IN  IF row.kind = "TopLevel"
               THEN /\ row.index \in detail.collapsed <=>
                          row.index \notin detail'.collapsed
                    /\ detail'.collapsed \ { row.index } =
                          detail.collapsed \ { row.index }
                    /\ detail'.selected = detail.selected
                    /\ detail'.spec_index = detail.spec_index
                    /\ UNCHANGED << mode, specs, display_items, selectable,
                                    selected, should_quit >>
                    /\ rows2[detail.selected + 1].kind = "TopLevel"
                    /\ rows2[detail.selected + 1].index = row.index
                    /\ again = detail
                    /\ Len(detail_rows(specs', again)) = Len(rows)
               ELSE UNCHANGED app
      ]_vars

\* Enter or Space collapsed a top-level task that has a child: one row fewer.
C20_Witness ==
    /\ mode = "Detail"
    /\ key \in { "Enter", "Space" }
    /\ DetailIndexValid(specs, detail)
    /\ detail.collapsed = { 0 }
    /\ Len(OpenSpec(specs, detail).tasks) = 2
    /\ Len(OpenSpec(specs, detail).tasks[1].children) = 1
    /\ Len(detail_rows(specs, detail)) = 2

\* ---- the rows of Detail mode ----

\* The number of rows of the top-level tasks before task t (0-based): one
\* each, plus the children of those that are not collapsed.
RECURSIVE RowsBefore(_, _, _)
RowsBefore(tasks, collapsed, t) ==
    IF t = 0 THEN 0
    ELSE RowsBefore(tasks, collapsed, t - 1) + 1
         + (IF (t - 1) \in collapsed THEN 0 ELSE Len(tasks[t].children))

\* C21: the rows of the open document are, for each top-level task in order,
\* its TopLevel row and then one SubTask row per child in order exactly when
\* the task is not collapsed; there are as many rows as top-level tasks plus
\* children of tasks that are not collapsed, and no SubTask row of a
\* collapsed task.
C21_RowsFollowCollapsedSet ==
    (mode = "Detail" /\ DetailIndexValid(specs, detail)) =>
       LET tasks == OpenSpec(specs, detail).tasks
           collapsed == detail.collapsed
           rows == detail_rows(specs, detail)
       IN  /\ Len(rows) = RowsBefore(tasks, collapsed, Len(tasks))
           /\ \A t \in 0..(Len(tasks) - 1) :
                 LET at == RowsBefore(tasks, collapsed, t) + 1
                 IN  /\ rows[at] = [kind |-> "TopLevel", index |-> t,
                                    expanded |-> t \notin collapsed]
                     /\ t \notin collapsed =>
                           \A c \in 0..(Len(tasks[t + 1].children) - 1) :
                              rows[at + 1 + c] =
                                 [kind |-> "SubTask", parent |-> t, child |-> c]
           /\ \A r \in 1..Len(rows) :
                 rows[r].kind = "SubTask" => rows[r].parent \notin collapsed

\* The open document has a task with a child and a second task; the first
\* is collapsed, the second is not: two rows, none of them a SubTask row.
C21_Witness ==
    /\ mode = "Detail"
    /\ DetailIndexValid(specs, detail)
    /\ Len(OpenSpec(specs, detail).tasks) = 2
    /\ Len(OpenSpec(specs, detail).tasks[1].children) = 1
    /\ detail.collapsed = { 0 }
    /\ detail.selected = 1
    /\ Len(detail_rows(specs, detail)) = 2

\* C22: a reload leaves the mode as it is, in Detail mode and in List mode.
C22_ReloadKeepsMode ==
    [][ ReloadStep => mode' = mode ]_vars

\* A notification was drained in Detail mode and left no summary at all.
C22_Witness ==
    /\ mode = "Detail"
    /\ pc = "poll"
    /\ specs = <<>>
    /\ DOMAIN files = {}

\* The summaries as a bag: how many times each occurs.
CountOf(summaries, s) ==
    Cardinality({ i \in 1..Len(summaries) : summaries[i] = s })

SameSummaries(a, b) ==
    /\ Len(a) = Len(b)
    /\ \A i \in 1..Len(a) : CountOf(a, a[i]) = CountOf(b, a[i])

\* C23: a reload that finds the same documents with the same summaries
\* leaves the list selection ordinal unchanged and, in Detail mode, the open
\* document, the collapsed set and the row selection.
C23_ReloadOfSameSetKeepsState ==
    [][ (ReloadStep /\ SameSummaries(specs, specs')) =>
           /\ selected' = selected
           /\ mode = "Detail" =>
                 /\ OpenSpec(specs', detail') = OpenSpec(specs, detail)
                 /\ detail'.collapsed = detail.collapsed
                 /\ detail'.selected = detail.selected
      ]_vars

\* ---- notifications and reloads ----

\* The summaries a load of the collection can give now.
Loads == { load_all_summaries(files, order) : order \in ReadDirOrders(files) }

\* The drain step of a loop iteration.
DrainStep == pc = "drain" /\ pc' = "poll"

\* C24: the drain of an iteration with one or more notifications pending
\* leaves none pending and reloads (the summaries and display list are those
\* of the files as they are now); with none pending it reloads nothing.
C24_DrainAllReloadOnce ==
    [][ DrainStep =>
          IF fs_rx > 0
          THEN /\ fs_rx' = 0
               /\ specs' \in Loads
               /\ display_items' = build_display_items(specs').display_items
               /\ selectable' = build_display_items(specs').selectable
          ELSE UNCHANGED << fs_rx, app >>
      ]_vars

\* Detail mode after a drain whose reload left one document, fewer than the
\* open index needs: the frame drawn just before still had that document.
C24_Witness ==
    /\ pc = "poll"
    /\ key = "none"
    /\ fs_rx = 0
    /\ mode = "Detail"
    /\ Len(specs) = 1
    /\ ~DetailIndexValid(specs, detail)

\* run() is in main_loop, after the initial load.
InLoop == pc \in { "draw", "drain", "poll" }

\* The summaries in memory are not what a load of the files would give now.
Stale == specs \notin Loads

\* A change has been made that the summaries may not show yet: the initial
\* load is still to come, or a notification is pending.
ReloadDue == pc = "app_new" \/ (InLoop /\ fs_rx > 0)

\* C25: with a working watcher, the summaries of a running loop are stale
\* only while a notification is pending, and whenever a load is due the loop
\* gets to a point where none is (it has reloaded) unless the session ends
\* first, keys or no keys.
C25_ChangesEventuallyReloaded ==
    /\ []((watching /\ InLoop /\ fs_rx = 0) => ~Stale)
    /\ (watching /\ ReloadDue) ~> ((InLoop /\ fs_rx = 0) \/ ~(InLoop \/ pc = "app_new"))

\* A change made after the watcher was registered and before the initial
\* load, and one made while the loop waits for a key: both pending and stale.
C25_Witness ==
    /\ watching
    /\ pc = "poll"
    /\ fs_rx = 2
    /\ Stale
    /\ specs # <<>>

\* The step in which the key press `code` is handled.
KeyStep(code) == pc = "poll" /\ key' = code

\* C26: a 'q' press in List or Detail mode is the last thing main_loop does:
\* the flag is set, main_loop returns Ok in that iteration and only the
\* restore of the terminal follows; no other step sets the flag.
C26_QuitEndsSession ==
    [][ /\ KeyStep("q") =>
             /\ should_quit'
             /\ pc' = "restore"
             /\ result' = "Ok"
        /\ (should_quit' /\ ~should_quit) => KeyStep("q")
        /\ should_quit =>
             /\ pc = "restore"
             /\ pc' = "returned"
             /\ result' = "Ok"
             /\ UNCHANGED << app, fs_rx, key >>
      ]_vars

\* C27: when stdout is not a terminal, run has returned the error that names
\* the interactive terminal, and raw mode was never enabled, the alternate
\* screen never entered, no watcher started and no document loaded.
C27_NoTerminalFailsFast ==
    result = NotTerminalError =>
        /\ pc = "returned"
        /\ ~raw_mode
        /\ ~alt_screen
        /\ ~watching
        /\ fs_rx = 0
        /\ specs = <<>>
        /\ display_items = <<>>
        /\ ~should_quit

\* The error has been returned with documents in the collection.
C27_Witness ==
    /\ result = NotTerminalError
    /\ pc = "returned"
    /\ DOMAIN files # {}

\* run() is between setup_watcher and the end of main_loop without a watcher.
Unwatched == ~watching /\ pc \in { "app_new", "draw", "drain", "poll" }

\* C28: without a watcher the session still runs: the initial load is made
\* and drawn, nothing is ever pending, keys are handled and 'q' ends the
\* session with Ok; the summaries of the initial load are never replaced.
C28_NoWatcherNoReload ==
    [][ Unwatched =>
          /\ fs_rx = 0
          /\ fs_rx' = 0
          /\ pc' \in { "draw", "drain", "poll", "restore" } \cup { pc }
          /\ (pc = "app_new" /\ pc' # pc) => (pc' = "draw" /\ specs' \in Loads)
          /\ pc # "app_new" => UNCHANGED << specs, display_items, selectable >>
          /\ KeyStep("q") => (pc' = "restore" /\ result' = "Ok")
          /\ KeyStep("Enter") =>
               (mode' = "Detail" <=> (mode = "Detail" \/ selected_spec_index.some))
      ]_vars

\* No watcher, a document open in Detail mode, and the collection changed
\* since the initial load: the summaries still are those of the initial load.
C28_Witness ==
    /\ Unwatched
    /\ pc = "poll"
    /\ mode = "Detail"
    /\ Stale

\* The marker a check (an uncheck) looks for, and the one it writes.
MarkerSought(res) == IF res.action = "Checked" THEN UncheckedMarker ELSE CheckedMarker
MarkerWritten(res) == IF res.action = "Checked" THEN CheckedMarker ELSE UncheckedMarker

\* The trimmed line is the marker followed by "<id>:".
MarkedFor(line, marker, id) == StartsWith(Trim(line), marker \o id \o << ":" >>)

\* The line with the six characters after its indentation replaced by marker.
WithMarker(line, marker) ==
    LET n == SkipWhitespace(line, 1)
    IN  SubSeq(line, 1, n - 1) \o marker \o SubSeq(line, n + Len(marker), Len(line))

CommandOf(res) ==
    [task_id |-> res.task_id,
     check |-> IF res.status = "Ok" THEN res.action = "Checked"
               ELSE res.state = "unchecked"]

\* C30: a check of an id with no unchecked matching line, and an uncheck of an
\* id with no checked matching line, returns the error naming that state and
\* leaves every document as it was.
C30_NoMatchIsError ==
    [][ LET cmd == CommandOf(result')
            sought == IF cmd.check THEN UncheckedMarker ELSE CheckedMarker
        IN  (\A path \in DOMAIN files : \A i \in 1..Len(files[path]) :
                 ~MarkedFor(files[path][i], sought, cmd.task_id))
            => /\ result'.status = "Err"
               /\ files' = files
      ]_vars

\* A check of A was refused on a document whose only line of A is checked.
C30_Witness ==
    /\ pc = "check_task"
    /\ result = NoTaskFound("unchecked", << "A" >>)
    /\ files[PathRootA] = << LineTopADone, LineSubA1Open >>

\* The check state of every line: checked, unchecked, or no task line.
CheckStateOf(line) ==
    IF StartsWith(Trim(line), CheckedMarker) THEN "checked"
    ELSE IF StartsWith(Trim(line), UncheckedMarker) THEN "unchecked"
    ELSE "none"

CheckStates(text) == [i \in 1..Len(text) |-> CheckStateOf(text[i])]

\* The lines of text that a successful check of id may just have rewritten:
\* checked lines of id with no unchecked line of id before them.
RewrittenBy(text, id) ==
    { i \in 1..Len(text) :
        /\ MarkedFor(text[i], CheckedMarker, id)
        /\ \A j \in 1..(i - 1) : ~MarkedFor(text[j], UncheckedMarker, id) }

\* The document before that check, had it rewritten line i.
BeforeCheck(text, i) == [text EXCEPT ![i] = WithMarker(@, UncheckedMarker)]

\* The step is an uncheck of the id whose check succeeded in the step before.
UncheckAfterCheck(id) ==
    /\ result = Checked(id)
    /\ result'.status # "none"
    /\ CommandOf(result') = [task_id |-> id, check |-> FALSE]

ToBeLoaded(fs) ==
    { p \in DOMAIN fs :
        /\ Len(p.dir) <= 1
        /\ p.dir # << TemplatesDir >>
        /\ EndsWith(p.file, MdSuffix)
        /\ Len(p.file) > TIMESTAMP_PREFIX_LEN + Len(MdSuffix) }

\* The summary is the summary of the file at p.
SummaryOfPath(s, p) ==
    /\ s.name = SubSeq(p.file, TIMESTAMP_PREFIX_LEN + 1, Len(p.file) - Len(MdSuffix))
    /\ s.group = (IF p.dir = <<>> THEN None ELSE Some(p.dir[1]))
    /\ s.timestamp = extract_timestamp(p.file)

\* C32: the loaded summaries are those of the markdown files in the root and
\* in its immediate subdirectories other than `templates`, one each: none has
\* group `templates`, deeper files and files that fail to load are passed
\* over without losing the others, and no file gives no summary.
C32_LoadsRootAndOneLevel ==
    pc = "draw" =>
        /\ Len(specs) = Cardinality(ToBeLoaded(files))
        /\ \A p \in ToBeLoaded(files) :
              \E i \in 1..Len(specs) : SummaryOfPath(specs[i], p)
        /\ \A i \in 1..Len(specs) : specs[i].group # Some(TemplatesDir)
        /\ (DOMAIN files = {} => specs = <<>>)

\* Every file of the collection is there and two summaries are loaded.
C32_Witness ==
    /\ pc = "draw"
    /\ DOMAIN files = WalkPaths
    /\ Len(specs) = 2

\* Nothing but files to pass over: the load is empty.
C32_WitnessNone ==
    /\ pc = "draw"
    /\ DOMAIN files = { PathTemplate, PathDeep, PathText, PathShort }
    /\ specs = <<>>

\* A forest written back as checklist lines: "- [ ] id: description" or
\* "- [x] id: description", the children of a node after it, indented.
RECURSIVE WriteNodes(_, _)
WriteNodes(nodes, indent) ==
    IF nodes = <<>> THEN <<>>
    ELSE LET n == Head(nodes)
         IN  << TaskLine(indent, n.checked, n.id, n.description) >>
             \o WriteNodes(n.children, indent + 2)
             \o WriteNodes(Tail(nodes), indent)

WriteForest(forest) == << PlanHeading >> \o WriteNodes(forest, 0)

\* C33: the forest parsed from a document, written back as checklist lines
\* under the plan heading and parsed again, is the same forest.
C33_ParseWriteParse ==
    (pc = "draw" /\ Len(specs) = 1) =>
        parse_tasks(WriteForest(specs[1].tasks)) = specs[1].tasks

\* A forest with an empty id, a child from a loosely written line and an
\* empty description.
C33_Witness ==
    /\ pc = "draw"
    /\ files[PathRootA] = << LinePlan, LineEmptyId, LineLoose, LineEmptyDesc >>
    /\ Len(specs) = 1
    /\ Len(specs[1].tasks) = 2
    /\ WriteForest(specs[1].tasks) # files[PathRootA]

\* C34: whenever the mode is Detail the open index is within the summaries,
\* after reloads that shrink or empty the collection too, and so no draw and
\* no key handler indexes out of bounds.
C34_OpenIndexAlwaysValid ==
    /\ mode = "Detail" => DetailIndexValid(specs, detail)
    /\ pc # "panicked"

\* C35: between the draw of an iteration and its key handler (the drain is
\* the only step of main_loop there) the summaries, the display list and the
\* selection stay as they were drawn, so the key is applied to what is on
\* screen.
C35_KeyAppliedToDrawnState ==
    [][ pc = "drain" =>
          UNCHANGED << specs, display_items, selectable, selected >> ]_vars

\* C36: when two invocations for different ids have both succeeded, the line
\* each of them rewrote carries the check state it asked for.
C36_BothUpdatesTakeEffect ==
    (\A p \in DOMAIN procs : procs[p].at = "returned" /\ procs[p].found) =>
        \A p \in DOMAIN procs : \A path \in DOMAIN files :
            CheckStateOf(files[path][procs[p].hit]) =
                (IF procs[p].check THEN "checked" ELSE "unchecked")

\* The counts of the summary a load of the file at path gives.
LoadedCounts(fs, path) ==
    [total |-> load_spec_summary(fs, path).val.total,
     checked |-> load_spec_summary(fs, path).val.checked]

\* C37: after a successful check the freshly loaded summary of the document
\* has one more checked task and the same total, after a successful uncheck
\* one fewer, whatever the document holds.
C37_SummaryFollowsCheck ==
    [][ result'.status = "Ok" =>
          \A path \in DOMAIN files :
             /\ LoadedCounts(files', path).total = LoadedCounts(files, path).total
             /\ LoadedCounts(files', path).checked =
                   LoadedCounts(files, path).checked
                   + (IF result'.action = "Checked" THEN 1 ELSE -1)
      ]_vars

\* The positions of the group headers before position k of the display list.
HeadersBefore(items, k) == { j \in 1..(k - 1) : items[j].kind = "GroupHeader" }

\* The group of the document the Spec row at position k stands for.
GroupOfRow(k) == specs[display_items[k].idx + 1].group

\* The Spec row at position k starts a run of rows of one group.
StartsRun(k) ==
    \/ display_items[k].idx = 0
    \/ specs[display_items[k].idx].group # GroupOfRow(k)

\* C38: in the display list of a load, every run of rows of a group g starts
\* right after a header named g, and every row belongs to the group of the
\* last header before it: a row with no header before it is ungrouped, and an
\* ungrouped row has no header before it.
C38_RowsUnderTheirHeader ==
    pc = "draw" =>
        \A k \in 1..Len(display_items) :
            display_items[k].kind = "Spec" =>
               /\ (StartsRun(k) /\ GroupOfRow(k).some) =>
                     /\ k > 1
                     /\ display_items[k - 1].kind = "GroupHeader"
                     /\ display_items[k - 1].name = GroupOfRow(k).val
               /\ IF HeadersBefore(display_items, k) = {}
                  THEN GroupOfRow(k) = None
                  ELSE LET h == CHOOSE j \in HeadersBefore(display_items, k) :
                                   \A i \in HeadersBefore(display_items, k) : i <= j
                       IN  GroupOfRow(k) = Some(display_items[h].name)

\* C39: a check or uncheck rewrites, of the documents that share the name,
\* the one with the most recent timestamp, in whatever group each of them is.
C39_ResolvesToMostRecent ==
    [][ \A p \in DOMAIN files :
          files'[p] # files[p] =>
             \A q \in DOMAIN files :
                extract_spec_name(q.file) = extract_spec_name(p.file) =>
                   StrCmp(extract_timestamp(q.file), extract_timestamp(p.file)) # Greater
      ]_vars

====
